---- MODULE Spec2Model ----
(***************************************************************************)
(* The SOS relay of functions/index.js (the revision with Firestore        *)
(* snapshots, the block list, bearer authentication and the scheduled      *)
(* expiry job).                                                            *)
(*                                                                         *)
(* Firestore collections are functions from document id to document, a     *)
(* document is a function from field name to value, and a field that is    *)
(* undefined in JavaScript is a field that is not in the DOMAIN.  Text     *)
(* that the code cuts, trims or changes the case of (district names, the   *)
(* reporter's free-text location) is a sequence of one-character strings.  *)
(*                                                                         *)
(* A handler is split at its awaits: these are the only points at which    *)
(* Node can run another handler.  Each await on Firestore or FCM takes its *)
(* outcome ("ok" or "fail") from the environment.  proc[r] holds the       *)
(* locals of the handler running in slot r between two awaits, and the     *)
(* response once it has answered.                                          *)
(***************************************************************************)
EXTENDS Integers, Sequences, FiniteSets, TLC

VARIABLES
    sos_alerts,     \* collection 'sos_alerts':   sender_id -> document
    blocked_users,  \* collection 'blocked_users': sender_id -> document
    fcm,            \* admin.messaging(): the number of messages it has accepted
    now,            \* the clock behind Date.now() and serverTimestamp(), in ticks
    FEATURES,       \* the feature flags
    proc,           \* slot -> the handler in it
    admins,         \* collection 'admins': email -> document
    auth_users      \* admin.auth(): email -> user record (uid, custom claims)

vars == <<sos_alerts, blocked_users, fcm, now, FEATURES, proc, admins, auth_users>>

\* ------------------------------------------------------------------ bounds
MaxTime == 2        \* ticks the clock may advance
MaxSent == 2        \* sends FCM accepts before the model stops taking /sos requests
MaxInflight == 2    \* handler slots

Slots == 1..MaxInflight
Outcomes == {"ok", "fail"}

\* ------------------------------------------------------ JavaScript values
EmptyFn == [x \in {} |-> x]

Has(o, f) == f \in DOMAIN o

\* o.f is truthy, for a field holding a string ("" is falsy, like undefined)
HasStr(o, f) == Has(o, f) /\ o[f] # ""

\* o.f is truthy, for a field holding text
HasText(o, f) == Has(o, f) /\ o[f] # <<>>

\* { ...(cond ? { [f]: v } : {}) }
Field(cond, f, v) == IF cond THEN f :> v ELSE EmptyFn

\* {...old, ...new}: the fields of new win, the other fields of old stay
Merge(new, old) ==
    [f \in DOMAIN new \cup DOMAIN old |-> IF f \in DOMAIN new THEN new[f] ELSE old[f]]

\* ------------------------------------------------------------------- text
UpperMap == [a |-> "A", d |-> "D", k |-> "K", m |-> "M", u |-> "U"]

UpperChar(c) == IF c \in DOMAIN UpperMap THEN UpperMap[c] ELSE c

\* \w of a JavaScript regular expression
IsWordChar(c) == c \notin {" ", ","}

toUpperCase(s) == [i \in 1..Len(s) |-> UpperChar(s[i])]

\* s.split(',').pop(): what follows the last comma, the whole text without one
splitPop(s) ==
    LET commas == {i \in 1..Len(s) : s[i] = ","}
        last == IF commas = {} THEN 0 ELSE CHOOSE i \in commas : \A j \in commas : j <= i
    IN SubSeq(s, last + 1, Len(s))

\* trim leaving the text as it is
trim_Identity(s) == s

trim(s) ==
    LET solid == {i \in 1..Len(s) : s[i] # " "}
    IN IF solid = {} THEN <<>>
       ELSE SubSeq(s, CHOOSE i \in solid : \A j \in solid : i <= j,
                      CHOOSE i \in solid : \A j \in solid : j <= i)

\* district.replace(/_/g, ' ').replace(/\b\w/g, l => l.toUpperCase())
titleCase(district) ==
    LET spaced == [i \in 1..Len(district) |->
                      IF district[i] = "_" THEN " " ELSE district[i]]
    IN [i \in 1..Len(spaced) |->
          IF IsWordChar(spaced[i]) /\ (i = 1 \/ ~IsWordChar(spaced[i - 1]))
          THEN UpperChar(spaced[i]) ELSE spaced[i]]

\* userInfo?.location || <the district, title-cased>
userLocationOf(userInfo) ==
    IF HasText(userInfo, "location") THEN userInfo.location
    ELSE titleCase(userInfo.district)

\* userLocation.split(',').pop().trim().toUpperCase()
stateOf(userInfo) == toUpperCase(trim(splitPop(userLocationOf(userInfo))))

\* the topic falling back to one district, as targetDistrict of /test-push does
topicOf_Default(district) == <<"district-", "u", "d">>

\* `district-${district}`
topicOf(district) == <<"district-">> \o district

\* -------------------------------------------------------------- Firestore
DocExists(coll, id) == id \in DOMAIN coll

\* doc(id).set(data)
SetDoc(coll, id, data) ==
    [k \in DOMAIN coll \cup {id} |-> IF k = id THEN data ELSE coll[k]]

\* set(data, { merge: true }) writing as set(data) does
SetMerge_Replace(coll, id, data) == SetDoc(coll, id, data)

\* doc(id).set(data, { merge: true })
SetMerge(coll, id, data) ==
    SetDoc(coll, id, IF DocExists(coll, id) THEN Merge(data, coll[id]) ELSE data)

\* a delete that removes nothing
DeleteDoc_Keeps(coll, id) == coll

\* doc(id).delete()
DeleteDoc(coll, id) == [k \in DOMAIN coll \ {id} |-> coll[k]]

\* a commit that applies the update of one ref only
BatchCommit_OneRef(coll, ids, data) ==
    LET one == CHOOSE k \in ids : TRUE
    IN [k \in DOMAIN coll |-> IF k = one THEN Merge(data, coll[k]) ELSE coll[k]]

\* batch.update(ref, data) for every ref of ids, then batch.commit(): all or none
BatchCommit(coll, ids, data) ==
    [k \in DOMAIN coll |-> IF k \in ids THEN Merge(data, coll[k]) ELSE coll[k]]

\* ------------------------------------------------------------ the inputs
Senders == {"A", "B"}

Udupi == <<"u", "d">>
DK == <<"d", "_", "k">>
Districts == {Udupi, DK}

L1 == [latitude |-> 13, longitude |-> 74, accuracy |-> 10]
L2 == [latitude |-> 12, longitude |-> 75, accuracy |-> 5]

\* "Ma, Ka": a place and a state
TextPlaceState == <<"M", "a", ",", " ", "K", "a">>
\* "Ma,": nothing after the last comma
TextTrailingComma == <<"M", "a", ",">>

UFull == [district |-> Udupi, name |-> "Jane", location |-> TextPlaceState,
          phone |-> "+91"]
UComma == [district |-> Udupi, name |-> "Ravi", location |-> TextTrailingComma,
           mobile_number |-> "+92", message |-> "help"]
UDistrictOnly == [district |-> DK]
UEmptyDistrict == [district |-> <<>>, name |-> "Jane"]

SosBody(s, t, l, u) == [sender_id |-> s, sos_type |-> t, location |-> l, userInfo |-> u]

\* request bodies of POST /sos.  Sender A sends well-formed requests of both
\* types and every shape, and one request for each way of being malformed;
\* sender B, the second row of a sweep, raises alerts of one shape.
SosBodies ==
    {SosBody("A", t, p[1], p[2]) :
        t \in {"sos_alert", "stop"},
        p \in {<<L1, UFull>>, <<L2, UComma>>, <<L1, UDistrictOnly>>}}
    \cup {SosBody("B", "sos_alert", L1, UFull)}
    \cup {[sos_type |-> "sos_alert", location |-> L1, userInfo |-> UFull],
          [sender_id |-> "A", location |-> L1, userInfo |-> UFull],
          [sender_id |-> "A", sos_type |-> "cancel", location |-> L1, userInfo |-> UFull]}
    \cup {[sender_id |-> "A", sos_type |-> t, userInfo |-> UFull] :
             t \in {"sos_alert", "stop"}}
    \cup {[sender_id |-> "A", sos_type |-> t, location |-> L1] :
             t \in {"sos_alert", "stop"}}
    \cup {SosBody("A", t, L1, UEmptyDistrict) : t \in {"sos_alert", "stop"}}

\* ------------------------------------------------------- database operations
\* isSenderBlocked deciding on blockedDoc.exists alone
isSenderBlocked_ExistsOnly(blocked, flags, sender_id, lookup) ==
    IF ~flags.BLOCKED_USERS THEN FALSE
    ELSE IF lookup = "fail" THEN FALSE
    ELSE DocExists(blocked, sender_id)

\* isSenderBlocked answering true when the lookup throws
isSenderBlocked_FailClosed(blocked, flags, sender_id, lookup) ==
    IF ~flags.BLOCKED_USERS THEN FALSE
    ELSE IF lookup = "fail" THEN TRUE
    ELSE /\ DocExists(blocked, sender_id)
         /\ Has(blocked[sender_id], "blocked")
         /\ blocked[sender_id].blocked = TRUE

\* blockedDoc.exists && blockedDoc.data()?.blocked === true; false when the
\* lookup throws
isSenderBlocked(blocked, flags, sender_id, lookup) ==
    IF ~flags.BLOCKED_USERS THEN FALSE
    ELSE IF lookup = "fail" THEN FALSE
    ELSE /\ DocExists(blocked, sender_id)
         /\ Has(blocked[sender_id], "blocked")
         /\ blocked[sender_id].blocked = TRUE

\* the userInfo that storeSOSAlert keeps
storedUserInfo(userInfo) ==
    [name |-> IF HasStr(userInfo, "name") THEN userInfo.name ELSE "Unknown",
     mobile_number |-> IF HasStr(userInfo, "phone") THEN userInfo.phone
                       ELSE IF HasStr(userInfo, "mobile_number")
                            THEN userInfo.mobile_number ELSE "N/A",
     message |-> IF HasStr(userInfo, "message") THEN userInfo.message ELSE ""]

\* alertDataOf stamping the expiry fields on a stop
alertDataOf_StampsExpiry(sender_id, active, args, ts) ==
    [sender_id |-> sender_id, active |-> active, timestamp |-> ts]
    @@ Field(~active, "expiredAt", ts)
    @@ Field(~active, "expiredBy", "user")
    @@ Field(active /\ Has(args, "location"), "location", args.location)

\* alertDataOf resetting the expiry fields on a raise
alertDataOf_ResetsExpiry(sender_id, active, args, ts) ==
    [sender_id |-> sender_id, active |-> active, timestamp |-> ts]
    @@ Field(active, "expiredAt", 0)
    @@ Field(active, "expiredBy", "")
    @@ Field(active /\ Has(args, "location"), "location", args.location)
    @@ Field(active /\ Has(args, "userInfo"), "userInfo", storedUserInfo(args.userInfo))
    @@ Field(active /\ HasText(args, "district"), "district", args.district)
    @@ Field(active /\ HasText(args, "state"), "state", args.state)

\* alertData of storeSOSAlert; args holds the optional parameters that were passed
alertDataOf(sender_id, active, args, ts) ==
    [sender_id |-> sender_id, active |-> active, timestamp |-> ts]
    @@ Field(active /\ Has(args, "location"), "location", args.location)
    @@ Field(active /\ Has(args, "userInfo"), "userInfo", storedUserInfo(args.userInfo))
    @@ Field(active /\ HasText(args, "district"), "district", args.district)
    @@ Field(active /\ HasText(args, "state"), "state", args.state)

\* storeSOSAlert skipping the write when the row already has the requested
\* active value
storeSOSAlert_SkipUnchanged(coll, flags, sender_id, active, args, ts, write) ==
    IF ~flags.ENABLE_SOS_ALERT_SNAPSHOT THEN coll
    ELSE IF write = "fail" THEN coll
    ELSE IF DocExists(coll, sender_id) /\ coll[sender_id].active = active THEN coll
    ELSE SetMerge(coll, sender_id, alertDataOf(sender_id, active, args, ts))

\* storeSOSAlert writing whatever the feature flag says
storeSOSAlert_IgnoresFlag(coll, flags, sender_id, active, args, ts, write) ==
    IF write = "fail" THEN coll
    ELSE SetMerge(coll, sender_id, alertDataOf(sender_id, active, args, ts))

\* storeSOSAlert removing the row on a stop
storeSOSAlert_DeleteOnStop(coll, flags, sender_id, active, args, ts, write) ==
    IF ~flags.ENABLE_SOS_ALERT_SNAPSHOT THEN coll
    ELSE IF write = "fail" THEN coll
    ELSE IF ~active THEN DeleteDoc(coll, sender_id)
    ELSE SetMerge(coll, sender_id, alertDataOf(sender_id, active, args, ts))

\* storeSOSAlert: the collection it leaves; a failed write is caught and dropped
storeSOSAlert(coll, flags, sender_id, active, args, ts, write) ==
    IF ~flags.ENABLE_SOS_ALERT_SNAPSHOT THEN coll
    ELSE IF write = "fail" THEN coll
    ELSE SetMerge(coll, sender_id, alertDataOf(sender_id, active, args, ts))

\* ------------------------------------------------------------------ clock
ALERT_EXPIRATION_THRESHOLD_MS == 60 * 60 * 1000

\* the clock advances by one threshold at a time
TickMs == ALERT_EXPIRATION_THRESHOLD_MS

\* Date.now(), and the value serverTimestamp() resolves to
DateNow == now * TickMs

Tick ==
    /\ now < MaxTime
    /\ now' = now + 1
    /\ UNCHANGED <<sos_alerts, blocked_users, fcm, FEATURES, proc, admins, auth_users>>

\* --------------------------------------------------------------- handlers
Idle == [pc |-> "idle", op |-> "none"]

Quiet(r) == proc[r].pc \in {"idle", "done"}

\* handlers run one at a time: a request is taken when no handler is between
\* two awaits
Sequential(r) == r = 1 /\ \A q \in Slots : Quiet(q)

\* the request the handler in slot r is serving
ReqOf(r) ==
    [f \in DOMAIN proc[r] \ {"pc", "todo", "status", "error", "user"} |-> proc[r][f]]

\* res.status(status).json({ error }) or res.json({ success: true })
Respond(r, req, status, error) ==
    proc' = [proc EXCEPT ![r] = [pc |-> "done", status |-> status, error |-> error] @@ req]

\* ---------------------------------------------------------------- POST /sos
UserInfoOf(body) == IF Has(body, "userInfo") THEN body.userInfo ELSE EmptyFn

\* sosValidate with the block check made for sos_alert requests only
sosValidate_StopNotGated(body, blocked) ==
    IF ~HasStr(body, "sender_id") \/ ~HasStr(body, "sos_type") \/ ~Has(body, "location")
    THEN [status |-> 400, error |-> "Missing required fields"]
    ELSE IF blocked /\ body.sos_type # "stop"
    THEN [status |-> 403, error |-> "Access denied"]
    ELSE IF body.sos_type \notin {"sos_alert", "stop"}
    THEN [status |-> 400, error |-> "Invalid sos_type"]
    ELSE IF ~HasText(UserInfoOf(body), "district")
    THEN [status |-> 400, error |-> "Missing district in userInfo"]
    ELSE [status |-> 0, error |-> ""]

\* sosValidate without the check of sos_type
sosValidate_TypeUnchecked(body, blocked) ==
    IF ~HasStr(body, "sender_id") \/ ~HasStr(body, "sos_type") \/ ~Has(body, "location")
    THEN [status |-> 400, error |-> "Missing required fields"]
    ELSE IF blocked
    THEN [status |-> 403, error |-> "Access denied"]
    ELSE IF ~HasText(UserInfoOf(body), "district")
    THEN [status |-> 400, error |-> "Missing district in userInfo"]
    ELSE [status |-> 0, error |-> ""]

\* sosValidate asking for location of sos_alert requests only
sosValidate_LocationForAlertOnly(body, blocked) ==
    IF \/ ~HasStr(body, "sender_id") \/ ~HasStr(body, "sos_type")
       \/ (~Has(body, "location") /\ body.sos_type # "stop")
    THEN [status |-> 400, error |-> "Missing required fields"]
    ELSE IF blocked
    THEN [status |-> 403, error |-> "Access denied"]
    ELSE IF body.sos_type \notin {"sos_alert", "stop"}
    THEN [status |-> 400, error |-> "Invalid sos_type"]
    ELSE IF ~HasText(UserInfoOf(body), "district")
    THEN [status |-> 400, error |-> "Missing district in userInfo"]
    ELSE [status |-> 0, error |-> ""]

\* the checks of POST /sos in the order the handler makes them: the status and
\* error it answers with, status 0 when the request passes them all
sosValidate(body, blocked) ==
    IF ~HasStr(body, "sender_id") \/ ~HasStr(body, "sos_type") \/ ~Has(body, "location")
    THEN [status |-> 400, error |-> "Missing required fields"]
    ELSE IF blocked
    THEN [status |-> 403, error |-> "Access denied"]
    ELSE IF body.sos_type \notin {"sos_alert", "stop"}
    THEN [status |-> 400, error |-> "Invalid sos_type"]
    ELSE IF ~HasText(UserInfoOf(body), "district")
    THEN [status |-> 400, error |-> "Missing district in userInfo"]
    ELSE [status |-> 0, error |-> ""]

\* stopMessage / message: the topic and the data payload
sosMessage(body) ==
    [topic |-> topicOf(body.userInfo.district),
     type |-> IF body.sos_type = "stop" THEN "sos_resolved" ELSE "sos_alert",
     sender_id |-> body.sender_id,
     district |-> body.userInfo.district]

\* the optional arguments of the storeSOSAlert call of each branch
sosStoreArgs(body) ==
    IF body.sos_type = "stop" THEN EmptyFn
    ELSE [location |-> body.location, userInfo |-> body.userInfo,
          district |-> body.userInfo.district, state |-> stateOf(body.userInfo)]

\* sosAwaits with the snapshot stored before the message is sent
sosAwaits_StoreFirst(sos_type) == <<"store", "send">>

\* the awaits of a branch after the checks, in program order: the message goes
\* to FCM, then the snapshot is stored
sosAwaits(sos_type) == <<"send", "store">>

\* the handler of slot r goes on to its next await, or answers 200 after the last
SosAdvance(r, req) ==
    LET rest == Tail(proc[r].todo)
    IN IF rest = <<>> THEN Respond(r, req, 200, "")
       ELSE proc' = [proc EXCEPT ![r] = [pc |-> "sos_" \o Head(rest), todo |-> rest] @@ req]

\* the handler of POST /sos from the validation to the message being built:
\* awaits isSenderBlocked, whose lookup succeeds or throws
SosArrive(r, body, lookup) ==
    /\ LET req == [op |-> "sos", body |-> body, lookup |-> lookup]
           blocked == IF HasStr(body, "sender_id")
                      THEN isSenderBlocked(blocked_users, FEATURES, body.sender_id, lookup)
                      ELSE FALSE
           v == sosValidate(body, blocked)
           todo == sosAwaits(body.sos_type)
       IN IF v.status # 0 THEN Respond(r, req, v.status, v.error)
          ELSE proc' = [proc EXCEPT ![r] =
                           [pc |-> "sos_" \o Head(todo), todo |-> todo,
                            message |-> sosMessage(body)] @@ req]
    /\ UNCHANGED <<sos_alerts, blocked_users, fcm, now, FEATURES, admins, auth_users>>

\* a request arrives while no handler is between two awaits
SosCheck(r, body, lookup) ==
    /\ Sequential(r)
    /\ fcm.count < MaxSent
    /\ SosArrive(r, body, lookup)

\* SosSend going on to the snapshot when FCM rejects the message
SosSend_IgnoresFailure(r, send) ==
    /\ proc[r].pc = "sos_send"
    /\ IF send = "ok"
       THEN /\ fcm' = [count |-> fcm.count + 1]
            /\ SosAdvance(r, [messageId |-> fcm.count + 1] @@ ReqOf(r))
       ELSE /\ SosAdvance(r, ReqOf(r))
            /\ UNCHANGED fcm
    /\ UNCHANGED <<sos_alerts, blocked_users, now, FEATURES, admins, auth_users>>

\* await admin.messaging().send(message); a rejection lands in the catch
SosSend(r, send) ==
    /\ proc[r].pc = "sos_send"
    /\ IF send = "ok"
       THEN /\ fcm' = [count |-> fcm.count + 1]
            /\ SosAdvance(r, [messageId |-> fcm.count + 1] @@ ReqOf(r))
       ELSE /\ Respond(r, ReqOf(r), 500, "Failed to send SOS alert")
            /\ UNCHANGED fcm
    /\ UNCHANGED <<sos_alerts, blocked_users, now, FEATURES, admins, auth_users>>

\* SosStore letting a failed write reach the catch of the handler
SosStore_FailsOnWrite(r, write) ==
    /\ proc[r].pc = "sos_store"
    /\ LET body == proc[r].body
       IN sos_alerts' = storeSOSAlert(sos_alerts, FEATURES, body.sender_id,
                                      body.sos_type = "sos_alert", sosStoreArgs(body),
                                      DateNow, write)
    /\ IF write = "fail"
       THEN Respond(r, [write |-> write] @@ ReqOf(r), 500, "Failed to send SOS alert")
       ELSE SosAdvance(r, [write |-> write] @@ ReqOf(r))
    /\ UNCHANGED <<blocked_users, fcm, now, FEATURES, admins, auth_users>>

\* SosStore writing the active field alone
SosStore_WritesActiveOnly(r, write) ==
    /\ proc[r].pc = "sos_store"
    /\ sos_alerts' = IF write = "fail" THEN sos_alerts
                     ELSE SetMerge(sos_alerts, proc[r].body.sender_id,
                                   [active |-> proc[r].body.sos_type = "sos_alert"])
    /\ SosAdvance(r, [write |-> write] @@ ReqOf(r))
    /\ UNCHANGED <<blocked_users, fcm, now, FEATURES, admins, auth_users>>

\* await storeSOSAlert(...), which swallows a failed write
SosStore(r, write) ==
    /\ proc[r].pc = "sos_store"
    /\ LET body == proc[r].body
       IN sos_alerts' = storeSOSAlert(sos_alerts, FEATURES, body.sender_id,
                                      body.sos_type = "sos_alert", sosStoreArgs(body),
                                      DateNow, write)
    /\ SosAdvance(r, [write |-> write] @@ ReqOf(r))
    /\ UNCHANGED <<blocked_users, fcm, now, FEATURES, admins, auth_users>>

\* the block list the functions are deployed on: no record of sender A, and a
\* record of sender B that does not say blocked: true
DeployedBlockedUsers == "B" :> [blocked |-> FALSE, reason |-> "lifted"]

\* ---------------------------------------------------------- expireOldAlerts
\* collection('sos_alerts').where('active', '==', true).get()
activeAlerts(coll) ==
    {id \in DOMAIN coll : Has(coll[id], "active") /\ coll[id].active = TRUE}

\* olderThan with <= for <
olderThan_OrEqual(doc, thresholdTime) ==
    Has(doc, "timestamp") /\ doc.timestamp <= thresholdTime

\* timestamp && timestamp.getTime() < thresholdTime
olderThan(doc, thresholdTime) ==
    Has(doc, "timestamp") /\ doc.timestamp < thresholdTime

\* expiredAlertsOf taking every active row, whatever its age
expiredAlertsOf_AllActive(coll, dateNow) == activeAlerts(coll)

\* the ids the forEach puts in the batch (and in expiredAlerts)
expiredAlertsOf(coll, dateNow) ==
    {id \in activeAlerts(coll) :
        olderThan(coll[id], dateNow - ALERT_EXPIRATION_THRESHOLD_MS)}

\* the update of batch.update(alertRef, {...})
expireUpdate(ts) == [active |-> FALSE, expiredAt |-> ts, expiredBy |-> "scheduled_job"]

\* needsCommit never committing the batch
needsCommit_Never(batch) == FALSE

\* if (expiredAlerts.length > 0) await batch.commit()
needsCommit(batch) == batch # {}

\* a scheduled function whose catch logs the error and returns
scheduledOutcome_Swallow(threw) == "completed"

\* expireOldAlertsScheduled: what the scheduler is handed, given whether
\* expireOldAlerts threw (the catch logs and throws again)
scheduledOutcome(threw) == IF threw THEN "failed" ELSE "completed"

\* expireOldAlerts returns its summary or throws, and the scheduled function
\* hands that on; env is what the awaits met
SweepDone(r, env, threw, batch, checked) ==
    proc' = [proc EXCEPT ![r] =
                [pc |-> "done", op |-> "sweep", threw |-> threw, batch |-> batch,
                 result |-> IF threw THEN EmptyFn
                            ELSE [expired |-> Cardinality(batch), checked |-> checked,
                                  enabled |-> TRUE],
                 harness |-> scheduledOutcome(threw)] @@ env]

\* the scheduler fires; expireOldAlerts up to the commit: awaits the query
SweepArrive(r, scan) ==
    /\ IF ~FEATURES.ENABLE_SOS_ALERT_SNAPSHOT
       THEN proc' = [proc EXCEPT ![r] =
                        [pc |-> "done", op |-> "sweep", threw |-> FALSE, batch |-> {},
                         result |-> [expired |-> 0, checked |-> 0, enabled |-> FALSE],
                         harness |-> scheduledOutcome(FALSE)]]
       ELSE IF scan = "fail" THEN SweepDone(r, [scan |-> scan], TRUE, {}, 0)
       ELSE LET batch == expiredAlertsOf(sos_alerts, DateNow)
                checked == Cardinality(activeAlerts(sos_alerts))
            IN IF needsCommit(batch)
               THEN proc' = [proc EXCEPT ![r] = [pc |-> "sweep_commit", op |-> "sweep",
                                                 scan |-> scan, batch |-> batch,
                                                 checked |-> checked]]
               ELSE SweepDone(r, [scan |-> scan], FALSE, batch, checked)
    /\ UNCHANGED <<sos_alerts, blocked_users, fcm, now, FEATURES, admins, auth_users>>

\* the scheduler fires while no handler is between two awaits
SweepScan(r, scan) ==
    /\ Sequential(r)
    /\ SweepArrive(r, scan)

\* await batch.commit(), then the return
SweepCommit(r, commit) ==
    /\ proc[r].pc = "sweep_commit"
    /\ LET env == [scan |-> proc[r].scan, commit |-> commit]
       IN IF commit = "ok"
          THEN /\ sos_alerts' = BatchCommit(sos_alerts, proc[r].batch, expireUpdate(DateNow))
               /\ SweepDone(r, env, FALSE, proc[r].batch, proc[r].checked)
          ELSE /\ SweepDone(r, env, TRUE, proc[r].batch, proc[r].checked)
               /\ UNCHANGED sos_alerts
    /\ UNCHANGED <<blocked_users, fcm, now, FEATURES, admins, auth_users>>

\* ------------------------------------------------------------ authentication
SUPER_ADMINS == {"super@x.in"}

\* the ID tokens verifyIdToken accepts, and what they decode to; t_super2 was
\* issued to the super admin after the superadmin claim was set
Tokens == [t_admin |-> [uid |-> "u1", email |-> "admin@x.in"],
           t_super |-> [uid |-> "u2", email |-> "super@x.in"],
           t_super2 |-> [uid |-> "u2", email |-> "super@x.in", superadmin |-> TRUE]]

\* isSuperAdmin
isSuperAdmin_Never(email) == FALSE

isSuperAdmin(email) == email \in SUPER_ADMINS

\* authorization headers: a scheme and what follows it
AuthHeaders == {[scheme |-> "Bearer ", token |-> "t_admin"],
                [scheme |-> "Bearer ", token |-> "t_expired"],
                [scheme |-> "Basic ", token |-> "t_admin"]}

\* the decoded token of a request verifyIdToken accepts, no field otherwise
\* decodedTokenOf taking the token of a header of any scheme
decodedTokenOf_AnyScheme(headers) ==
    IF ~Has(headers, "authorization") THEN EmptyFn
    ELSE IF headers.authorization.token \notin DOMAIN Tokens THEN EmptyFn
    ELSE [token |-> Tokens[headers.authorization.token]]

decodedTokenOf(headers) ==
    IF ~Has(headers, "authorization") \/ headers.authorization.scheme # "Bearer "
    THEN EmptyFn
    ELSE IF headers.authorization.token \notin DOMAIN Tokens THEN EmptyFn
    ELSE [token |-> Tokens[headers.authorization.token]]

\* isSuperAdmin(decodedToken.email) && !decodedToken.superadmin
needsClaim(decodedToken) ==
    /\ isSuperAdmin(decodedToken.email)
    /\ ~(Has(decodedToken, "superadmin") /\ decodedToken.superadmin = TRUE)

\* authenticateUser calls setCustomUserClaims for this request
claimAsked(headers) ==
    /\ Has(decodedTokenOf(headers), "token")
    /\ needsClaim(decodedTokenOf(headers).token)

\* the outcomes of setCustomUserClaims a request can meet: it is awaited only
\* when it is called
GrantOutcomes(headers) == IF claimAsked(headers) THEN Outcomes ELSE {"ok"}

\* authenticateUser: req.user when it calls next(), no field when it answers
\* 401; grant is the outcome of setCustomUserClaims, when it is called
authenticateUser(headers, grant) ==
    LET decoded == decodedTokenOf(headers)
    IN IF ~Has(decoded, "token") THEN EmptyFn
       ELSE IF needsClaim(decoded.token) /\ grant = "fail" THEN EmptyFn
       ELSE [user |-> [uid |-> decoded.token.uid, email |-> decoded.token.email]]

\* setCustomUserClaims(uid, { superadmin: true }) on the user records
setCustomUserClaims(users, uid) ==
    [e \in DOMAIN users |->
        IF users[e].uid = uid THEN [users[e] EXCEPT !.customClaims = [superadmin |-> TRUE]]
        ELSE users[e]]

\* the user records authenticateUser leaves
authenticatedUsers(users, headers, grant) ==
    LET decoded == decodedTokenOf(headers)
    IN IF Has(decoded, "token") /\ needsClaim(decoded.token) /\ grant = "ok"
       THEN setCustomUserClaims(users, decoded.token.uid)
       ELSE users

\* ------------------------------------------------ block-user / unblock-user
\* getBlockedUser finding no document
getBlockedUser_NotFound(coll, sender_id) == EmptyFn

\* getBlockedUser: doc.exists ? { id, ...doc.data() } : null
getBlockedUser(coll, sender_id) ==
    IF DocExists(coll, sender_id) THEN [doc |-> coll[sender_id]] ELSE EmptyFn

\* blockData of blockUser
blockDataOf(body, blocked_by, ts) ==
    [blocked |-> TRUE, blockedAt |-> ts,
     reason |-> IF HasStr(body, "reason") THEN body.reason ELSE "No reason provided",
     blockedBy |-> IF blocked_by # "" THEN blocked_by ELSE "admin"]

BearerAdmin == [authorization |-> [scheme |-> "Bearer ", token |-> "t_admin"]]

\* requests to /admin/block-user and /admin/unblock-user: about sender A, with
\* each kind of authorization header, and one without a sender_id
AdminRequests ==
    {[headers |-> [authorization |-> h], body |-> [sender_id |-> "A", reason |-> "spam"]] :
        h \in AuthHeaders}
    \cup {[headers |-> EmptyFn, body |-> [sender_id |-> "A"]],
          [headers |-> BearerAdmin, body |-> EmptyFn]}

\* authenticateUser, then block-user up to the write: awaits verifyIdToken and
\* getBlockedUser
BlockArrive(r, request, grant, lookup) ==
    /\ auth_users' = authenticatedUsers(auth_users, request.headers, grant)
    /\ LET req == [op |-> "block", headers |-> request.headers, body |-> request.body,
                   lookup |-> lookup]
                  @@ Field(claimAsked(request.headers), "grant", grant)
           auth == authenticateUser(req.headers, grant)
           body == req.body
           existingUser == getBlockedUser(blocked_users, body.sender_id)
       IN IF ~Has(auth, "user") THEN Respond(r, req, 401, "Unauthorized")
          ELSE IF ~HasStr(body, "sender_id")
          THEN Respond(r, req, 400, "Missing required field")
          ELSE IF lookup = "fail" THEN Respond(r, req, 500, "Failed to block user")
          ELSE IF Has(existingUser, "doc") /\ Has(existingUser.doc, "blocked")
                  /\ existingUser.doc.blocked = TRUE
          THEN Respond(r, req, 409, "User already blocked")
          ELSE proc' = [proc EXCEPT ![r] = [pc |-> "block_write", user |-> auth.user] @@ req]
    /\ UNCHANGED <<sos_alerts, blocked_users, fcm, now, FEATURES, admins>>

\* a block-user request arrives while no handler is between two awaits
BlockCheck(r, request, grant, lookup) ==
    /\ Sequential(r)
    /\ BlockArrive(r, request, grant, lookup)

\* await blockUser(sender_id, reason, blocked_by)
BlockWrite(r, write) ==
    /\ proc[r].pc = "block_write"
    /\ IF write = "ok"
       THEN /\ blocked_users' = SetDoc(blocked_users, proc[r].body.sender_id,
                                       blockDataOf(proc[r].body, proc[r].user.email, DateNow))
            /\ Respond(r, ReqOf(r), 200, "")
       ELSE /\ Respond(r, ReqOf(r), 500, "Failed to block user")
            /\ UNCHANGED blocked_users
    /\ UNCHANGED <<sos_alerts, fcm, now, FEATURES, admins, auth_users>>

\* authenticateUser, then unblock-user up to the delete
UnblockCheck(r, request, grant, lookup) ==
    /\ Sequential(r)
    /\ auth_users' = authenticatedUsers(auth_users, request.headers, grant)
    /\ LET req == [op |-> "unblock", headers |-> request.headers, body |-> request.body,
                   lookup |-> lookup]
                  @@ Field(claimAsked(request.headers), "grant", grant)
           auth == authenticateUser(req.headers, grant)
           body == req.body
           existingUser == getBlockedUser(blocked_users, body.sender_id)
       IN IF ~Has(auth, "user") THEN Respond(r, req, 401, "Unauthorized")
          ELSE IF ~HasStr(body, "sender_id")
          THEN Respond(r, req, 400, "Missing required field")
          ELSE IF lookup = "fail" THEN Respond(r, req, 500, "Failed to unblock user")
          ELSE IF ~Has(existingUser, "doc") THEN Respond(r, req, 404, "User not found")
          ELSE proc' = [proc EXCEPT ![r] = [pc |-> "unblock_delete"] @@ req]
    /\ UNCHANGED <<sos_alerts, blocked_users, fcm, now, FEATURES, admins>>

\* await unblockUser(sender_id)
UnblockDelete(r, write) ==
    /\ proc[r].pc = "unblock_delete"
    /\ IF write = "ok"
       THEN /\ blocked_users' = DeleteDoc(blocked_users, proc[r].body.sender_id)
            /\ Respond(r, ReqOf(r), 200, "")
       ELSE /\ Respond(r, ReqOf(r), 500, "Failed to unblock user")
            /\ UNCHANGED blocked_users
    /\ UNCHANGED <<sos_alerts, fcm, now, FEATURES, admins, auth_users>>

\* ------------------------------------------------------- /admin/admins
requireSuperAdmin_AnyUser(req) == IF ~Has(req, "user") THEN 401 ELSE 0

\* requireSuperAdmin: the status it answers with, 0 when it calls next()
requireSuperAdmin(req) ==
    IF ~Has(req, "user") THEN 401
    ELSE IF req.user.email \notin SUPER_ADMINS THEN 403
    ELSE 0

\* the middleware of the /admin/admins routes: authenticateUser, then
\* requireSuperAdmin
superAdminGate(headers, grant) ==
    LET auth == authenticateUser(headers, grant)
    IN IF ~Has(auth, "user") THEN 401 ELSE requireSuperAdmin(auth)

getAdmin_Null(coll, email) == EmptyFn

\* getAdmin: doc.exists ? { email, ...doc.data() } : null
getAdmin(coll, email) == IF DocExists(coll, email) THEN [doc |-> coll[email]] ELSE EmptyFn

\* the emails of the requests that match /^[^\s@]+@[^\s@]+\.[^\s@]+$/
emailRegexTest(email) == email \in {"admin@x.in", "super@x.in", "new@x.in"}

\* adminDataOf creating the account inactive
adminDataOf_Inactive(body, createdBy, ts) ==
    [role |-> "admin",
     assignedDistricts |-> IF Has(body, "assignedDistricts") THEN body.assignedDistricts
                           ELSE {},
     active |-> FALSE, createdAt |-> ts, createdBy |-> createdBy]

\* adminData of the create route
adminDataOf(body, createdBy, ts) ==
    [role |-> "admin",
     assignedDistricts |-> IF Has(body, "assignedDistricts") THEN body.assignedDistricts
                           ELSE {},
     active |-> TRUE, createdAt |-> ts, createdBy |-> createdBy]

\* updateData of the update route
updateDataOf(body, updatedBy, ts) ==
    [updatedAt |-> ts, updatedBy |-> updatedBy]
    @@ Field(Has(body, "assignedDistricts"), "assignedDistricts", body.assignedDistricts)
    @@ Field(Has(body, "active"), "active", body.active)

\* admin.auth().createUser({ email, password, emailVerified: true })
createUser(users, email) ==
    [e \in DOMAIN users \cup {email} |->
        IF e = email THEN [uid |-> "uid:" \o email, customClaims |-> EmptyFn]
        ELSE users[e]]

deleteUser_Keeps(users, email) == users

\* getUserByEmail(email), then deleteUser(userRecord.uid)
deleteUser(users, email) == [e \in DOMAIN users \ {email} |-> users[e]]

HSuper == [authorization |-> [scheme |-> "Bearer ", token |-> "t_super"]]
HSuper2 == [authorization |-> [scheme |-> "Bearer ", token |-> "t_super2"]]

NewAdminBody == [email |-> "new@x.in", password |-> "pw", assignedDistricts |-> {Udupi}]

\* requests to the /admin/admins routes: from the super admin with a token of
\* either age, from the regular admin and without a token; about the super
\* admin's email, the regular admin's and a new one; well formed and not
ListRequests == {[headers |-> h] : h \in {HSuper, BearerAdmin, EmptyFn}}

CreateRequests ==
    {[headers |-> h, body |-> NewAdminBody] : h \in {HSuper2, BearerAdmin}}
    \cup {[headers |-> h, body |-> [email |-> "super@x.in", password |-> "pw"]] :
             h \in {HSuper2, BearerAdmin, EmptyFn}}
    \cup {[headers |-> HSuper2, body |-> b] :
             b \in {[email |-> "admin@x.in", password |-> "pw"],
                    [email |-> "new@x", password |-> "pw"],
                    [email |-> "new@x.in"]}}

UpdateRequests ==
    {[headers |-> HSuper2, params |-> [email |-> e], body |-> [active |-> FALSE]] :
        e \in {"super@x.in", "admin@x.in", "new@x.in"}}
    \cup {[headers |-> h, params |-> [email |-> "super@x.in"],
           body |-> [assignedDistricts |-> {DK}]] : h \in {HSuper, BearerAdmin}}
    \cup {[headers |-> BearerAdmin, params |-> [email |-> "admin@x.in"],
           body |-> [assignedDistricts |-> {DK}]]}

DeleteRequests ==
    {[headers |-> HSuper2, params |-> [email |-> e]] :
        e \in {"super@x.in", "admin@x.in", "new@x.in"}}
    \cup {[headers |-> BearerAdmin, params |-> [email |-> e]] :
             e \in {"super@x.in", "admin@x.in"}}

\* the request with the outcome of setCustomUserClaims, when it was called
GatedReq(op, request, grant) ==
    [op |-> op] @@ request @@ Field(claimAsked(request.headers), "grant", grant)

\* the handler of slot r goes on to its next await
Await(r, pc, req) == proc' = [proc EXCEPT ![r] = [pc |-> pc, user |-> proc[r].user] @@ req]

\* GET /admin/admins: the middleware, the query and the response
AdminsList(r, request, grant, read) ==
    /\ Sequential(r)
    /\ auth_users' = authenticatedUsers(auth_users, request.headers, grant)
    /\ read = "ok" \/ superAdminGate(request.headers, grant) = 0
    /\ LET gate == superAdminGate(request.headers, grant)
           req == GatedReq("list", request, grant)
       IN IF gate # 0 THEN Respond(r, req, gate, "gate")
          ELSE IF read = "fail"
          THEN Respond(r, [read |-> read] @@ req, 500, "Failed to retrieve admins")
          ELSE Respond(r, [read |-> read, emails |-> DOMAIN admins] @@ req, 200, "")
    /\ UNCHANGED <<sos_alerts, blocked_users, fcm, now, FEATURES, admins>>

\* POST /admin/admins: the middleware and the handler up to createUser
AdminCreateCheck(r, request, grant, lookup) ==
    /\ Sequential(r)
    /\ auth_users' = authenticatedUsers(auth_users, request.headers, grant)
    /\ lookup = "ok" \/ superAdminGate(request.headers, grant) = 0
    /\ LET gate == superAdminGate(request.headers, grant)
           req == [lookup |-> lookup] @@ GatedReq("create", request, grant)
           body == request.body
       IN IF gate # 0 THEN Respond(r, req, gate, "gate")
          ELSE IF ~HasStr(body, "email") \/ ~HasStr(body, "password")
          THEN Respond(r, req, 400, "Missing required fields")
          ELSE IF ~emailRegexTest(body.email)
          THEN Respond(r, req, 400, "Invalid email format")
          ELSE IF isSuperAdmin(body.email)
          THEN Respond(r, req, 400, "Cannot create admin account")
          ELSE IF lookup = "fail" THEN Respond(r, req, 500, "Failed to create admin")
          ELSE IF Has(getAdmin(admins, body.email), "doc")
          THEN Respond(r, req, 409, "Admin already exists")
          ELSE proc' = [proc EXCEPT ![r] =
                           [pc |-> "create_user",
                            user |-> authenticateUser(request.headers, grant).user] @@ req]
    /\ UNCHANGED <<sos_alerts, blocked_users, fcm, now, FEATURES, admins>>

\* await admin.auth().createUser(...), which rejects an email that has a user
AdminCreateUser(r, create) ==
    /\ proc[r].pc = "create_user"
    /\ LET email == proc[r].body.email
           req == [create |-> create] @@ ReqOf(r)
       IN IF create = "fail" \/ email \in DOMAIN auth_users
          THEN /\ Respond(r, req, 400, "Failed to create user account")
               /\ UNCHANGED auth_users
          ELSE /\ auth_users' = createUser(auth_users, email)
               /\ Await(r, "create_write", req)
    /\ UNCHANGED <<sos_alerts, blocked_users, fcm, now, FEATURES, admins>>

\* await collection('admins').doc(email).set(adminData), and the response
AdminCreateWrite(r, write) ==
    /\ proc[r].pc = "create_write"
    /\ LET req == [write |-> write] @@ ReqOf(r)
       IN IF write = "ok"
          THEN /\ admins' = SetDoc(admins, proc[r].body.email,
                                   adminDataOf(proc[r].body, proc[r].user.email, DateNow))
               /\ Respond(r, req, 200, "")
          ELSE /\ Respond(r, req, 500, "Failed to create admin")
               /\ UNCHANGED admins
    /\ UNCHANGED <<sos_alerts, blocked_users, fcm, now, FEATURES, auth_users>>

\* PUT /admin/admins/:email: the middleware and the handler up to the update
AdminUpdateCheck(r, request, grant, lookup) ==
    /\ Sequential(r)
    /\ auth_users' = authenticatedUsers(auth_users, request.headers, grant)
    /\ lookup = "ok" \/ superAdminGate(request.headers, grant) = 0
    /\ LET gate == superAdminGate(request.headers, grant)
           req == [lookup |-> lookup] @@ GatedReq("update", request, grant)
           email == request.params.email
       IN IF gate # 0 THEN Respond(r, req, gate, "gate")
          ELSE IF isSuperAdmin(email) THEN Respond(r, req, 400, "Cannot update super admin")
          ELSE IF lookup = "fail" THEN Respond(r, req, 500, "Failed to update admin")
          ELSE IF ~Has(getAdmin(admins, email), "doc")
          THEN Respond(r, req, 404, "Admin not found")
          ELSE proc' = [proc EXCEPT ![r] =
                           [pc |-> "update_write",
                            user |-> authenticateUser(request.headers, grant).user] @@ req]
    /\ UNCHANGED <<sos_alerts, blocked_users, fcm, now, FEATURES, admins>>

\* await collection('admins').doc(email).update(updateData), and the response
AdminUpdateWrite(r, write) ==
    /\ proc[r].pc = "update_write"
    /\ LET req == [write |-> write] @@ ReqOf(r)
           email == proc[r].params.email
       IN IF write = "ok" /\ DocExists(admins, email)
          THEN /\ admins' = SetDoc(admins, email,
                                   Merge(updateDataOf(proc[r].body, proc[r].user.email,
                                                      DateNow),
                                         admins[email]))
               /\ Respond(r, req, 200, "")
          ELSE /\ Respond(r, req, 500, "Failed to update admin")
               /\ UNCHANGED admins
    /\ UNCHANGED <<sos_alerts, blocked_users, fcm, now, FEATURES, auth_users>>

\* DELETE /admin/admins/:email: the middleware and the handler up to the
\* deletion of the user
AdminDeleteCheck(r, request, grant, lookup) ==
    /\ Sequential(r)
    /\ auth_users' = authenticatedUsers(auth_users, request.headers, grant)
    /\ lookup = "ok" \/ superAdminGate(request.headers, grant) = 0
    /\ LET gate == superAdminGate(request.headers, grant)
           req == [lookup |-> lookup] @@ GatedReq("delete", request, grant)
           email == request.params.email
       IN IF gate # 0 THEN Respond(r, req, gate, "gate")
          ELSE IF isSuperAdmin(email) THEN Respond(r, req, 400, "Cannot delete super admin")
          ELSE IF lookup = "fail" THEN Respond(r, req, 500, "Failed to delete admin")
          ELSE IF ~Has(getAdmin(admins, email), "doc")
          THEN Respond(r, req, 404, "Admin not found")
          ELSE proc' = [proc EXCEPT ![r] =
                           [pc |-> "delete_user",
                            user |-> authenticateUser(request.headers, grant).user] @@ req]
    /\ UNCHANGED <<sos_alerts, blocked_users, fcm, now, FEATURES, admins>>

\* getUserByEmail and deleteUser in their own try: a failure is logged and the
\* handler goes on
AdminDeleteUser(r, remove) ==
    /\ proc[r].pc = "delete_user"
    /\ auth_users' = IF remove = "ok" THEN deleteUser(auth_users, proc[r].params.email)
                     ELSE auth_users
    /\ Await(r, "delete_write", [remove |-> remove] @@ ReqOf(r))
    /\ UNCHANGED <<sos_alerts, blocked_users, fcm, now, FEATURES, admins>>

\* await collection('admins').doc(email).delete(), and the response
AdminDeleteWrite(r, write) ==
    /\ proc[r].pc = "delete_write"
    /\ LET req == [write |-> write] @@ ReqOf(r)
       IN IF write = "ok"
          THEN /\ admins' = DeleteDoc(admins, proc[r].params.email)
               /\ Respond(r, req, 200, "")
          ELSE /\ Respond(r, req, 500, "Failed to delete admin")
               /\ UNCHANGED admins
    /\ UNCHANGED <<sos_alerts, blocked_users, fcm, now, FEATURES, auth_users>>

\* ------------------------------------------------------- the dashboard
\* listBlockedUsers: the documents with blocked == true
listBlockedUsers(coll) ==
    [id \in {d \in DOMAIN coll : Has(coll[d], "blocked") /\ coll[d].blocked = TRUE} |->
        coll[id]]

\* getSOSAlerts: the fields of each document that the listing shows
getSOSAlerts(coll, flags, activeOnly) ==
    IF ~flags.ENABLE_SOS_ALERT_SNAPSHOT THEN EmptyFn
    ELSE [id \in {d \in DOMAIN coll : activeOnly => coll[d].active = TRUE} |->
             [f \in DOMAIN coll[id]
                    \cap {"active", "district", "location", "userInfo", "timestamp"} |->
                 coll[id][f]]]

\* 'Unknown', as text
UnknownText == <<"U", "n", "k", "n", "o", "w", "n">>

\* the documents the query of /admin/users returns: where('district', 'in',
\* allowedDistricts) for an admin with districts, the whole collection otherwise
usersQuery(coll, isSuperAdminUser, allowedDistricts) ==
    IF ~isSuperAdminUser /\ allowedDistricts # {}
    THEN {d \in DOMAIN coll : Has(coll[d], "district") /\ coll[d].district \in allowedDistricts}
    ELSE DOMAIN coll

\* the entry of userMap for a document, with the block information merged in
userEntry(senderId, data, blocked) ==
    LET base == [sender_id |-> senderId,
                 name |-> IF HasStr(data.userInfo, "name") THEN data.userInfo.name
                          ELSE "Unknown",
                 mobile_number |-> IF HasStr(data.userInfo, "mobile_number")
                                   THEN data.userInfo.mobile_number ELSE "N/A",
                 state |-> IF HasText(data, "state") THEN data.state ELSE UnknownText,
                 district |-> IF HasText(data, "district") THEN data.district
                              ELSE UnknownText,
                 blocked |-> FALSE]
        blockedMap == listBlockedUsers(blocked)
    IN IF senderId \in DOMAIN blockedMap
       THEN Merge([blocked |-> TRUE, blockedAt |-> blockedMap[senderId].blockedAt,
                   blockedBy |-> blockedMap[senderId].blockedBy,
                   reason |-> blockedMap[senderId].reason], base)
       ELSE base

\* the users of /admin/users for a request without search and within one page:
\* the documents of the query that carry a name or a number
usersOf(coll, blocked, isSuperAdminUser, allowedDistricts) ==
    [id \in {d \in usersQuery(coll, isSuperAdminUser, allowedDistricts) :
                /\ Has(coll[d], "userInfo")
                /\ HasStr(coll[d].userInfo, "name")
                   \/ HasStr(coll[d].userInfo, "mobile_number")} |->
        userEntry(id, coll[id], blocked)]

\* adminDoc.assignedDistricts || []
assignedDistrictsOf(adminDoc) ==
    IF Has(adminDoc, "assignedDistricts") THEN adminDoc.assignedDistricts ELSE {}

\* the headers of a request that carries no usable credential: no header, a
\* scheme that is not Bearer, a token the identity provider rejects
UnauthHeaders ==
    {EmptyFn,
     [authorization |-> [scheme |-> "Basic ", token |-> "t_admin"]],
     [authorization |-> [scheme |-> "Bearer ", token |-> "t_expired"]]}

\* requests to the dashboard routes, without query parameters except active
DashRequests == {[headers |-> h] : h \in {HSuper2, BearerAdmin} \cup UnauthHeaders}

AlertsRequests ==
    {[headers |-> h, query |-> q] :
        h \in {BearerAdmin, EmptyFn}, q \in {EmptyFn, [active |-> "true"]}}

\* the admin document is read only for a caller who is no super admin
ReadsAdmin(headers, grant) ==
    /\ Has(authenticateUser(headers, grant), "user")
    /\ ~isSuperAdmin(authenticateUser(headers, grant).user.email)

\* the admin document lets the caller in
AdminActive(coll, email) ==
    /\ Has(getAdmin(coll, email), "doc")
    /\ Has(getAdmin(coll, email).doc, "active")
    /\ getAdmin(coll, email).doc.active = TRUE

\* GET /admin/users: authenticateUser, the admin document, the two queries
UsersList(r, request, grant, lookup, read) ==
    /\ Sequential(r)
    /\ lookup = "ok" \/ ReadsAdmin(request.headers, grant)
    /\ auth_users' = authenticatedUsers(auth_users, request.headers, grant)
    /\ LET auth == authenticateUser(request.headers, grant)
           req == GatedReq("users", request, grant)
                  @@ Field(ReadsAdmin(request.headers, grant), "lookup", lookup)
           email == auth.user.email
       IN IF ~Has(auth, "user")
          THEN read = "ok" /\ Respond(r, req, 401, "Unauthorized")
          ELSE IF ~isSuperAdmin(email) /\ lookup = "fail"
          THEN read = "ok" /\ Respond(r, req, 500, "Failed to retrieve users")
          ELSE IF ~isSuperAdmin(email) /\ ~AdminActive(admins, email)
          THEN read = "ok" /\ Respond(r, req, 403, "Forbidden")
          ELSE IF read = "fail"
          THEN Respond(r, [read |-> read] @@ req, 500, "Failed to retrieve users")
          ELSE Respond(r, [read |-> read,
                           users |-> usersOf(sos_alerts, blocked_users, isSuperAdmin(email),
                                             IF isSuperAdmin(email) THEN {}
                                             ELSE assignedDistrictsOf(admins[email]))]
                          @@ req, 200, "")
    /\ UNCHANGED <<sos_alerts, blocked_users, fcm, now, FEATURES, admins>>

\* GET /admin/profile: authenticateUser, the admin document, the response
Profile(r, request, grant, lookup) ==
    /\ Sequential(r)
    /\ lookup = "ok" \/ ReadsAdmin(request.headers, grant)
    /\ auth_users' = authenticatedUsers(auth_users, request.headers, grant)
    /\ LET auth == authenticateUser(request.headers, grant)
           req == GatedReq("profile", request, grant)
                  @@ Field(ReadsAdmin(request.headers, grant), "lookup", lookup)
           email == auth.user.email
       IN IF ~Has(auth, "user") THEN Respond(r, req, 401, "Unauthorized")
          ELSE IF isSuperAdmin(email)
          THEN Respond(r, [profile |-> [email |-> email, role |-> "superadmin",
                                        assignedDistricts |-> {}, active |-> TRUE]]
                          @@ req, 200, "")
          ELSE IF lookup = "fail" THEN Respond(r, req, 500, "Failed to retrieve profile")
          ELSE IF ~AdminActive(admins, email) THEN Respond(r, req, 403, "Forbidden")
          ELSE Respond(r, [profile |-> [email |-> email, role |-> "admin",
                                        assignedDistricts |->
                                            assignedDistrictsOf(admins[email]),
                                        active |-> admins[email].active]]
                          @@ req, 200, "")
    /\ UNCHANGED <<sos_alerts, blocked_users, fcm, now, FEATURES, admins>>

\* GET /admin/blocked-users: no middleware; listBlockedUsers and the response
BlockedUsersList(r, request, read) ==
    /\ Sequential(r)
    /\ LET req == [op |-> "blocked-users", read |-> read] @@ request
       IN IF read = "fail" THEN Respond(r, req, 500, "Failed to retrieve blocked users")
          ELSE Respond(r, [blockedUsers |-> listBlockedUsers(blocked_users)] @@ req, 200, "")
    /\ UNCHANGED <<sos_alerts, blocked_users, fcm, now, FEATURES, admins, auth_users>>

\* GET /admin/sos-alerts: no middleware; getSOSAlerts, which reads nothing when
\* the snapshot feature is off, and the response
SosAlertsList(r, request, read) ==
    /\ Sequential(r)
    /\ read = "ok" \/ FEATURES.ENABLE_SOS_ALERT_SNAPSHOT
    /\ LET activeOnly == Has(request.query, "active") /\ request.query.active = "true"
           req == [op |-> "sos-alerts"] @@ request
                  @@ Field(FEATURES.ENABLE_SOS_ALERT_SNAPSHOT, "read", read)
       IN IF read = "fail" THEN Respond(r, req, 500, "Failed to retrieve SOS alerts")
          ELSE Respond(r, [alerts |-> getSOSAlerts(sos_alerts, FEATURES, activeOnly)]
                          @@ req, 200, "")
    /\ UNCHANGED <<sos_alerts, blocked_users, fcm, now, FEATURES, admins, auth_users>>

\* ------------------------------------------------------------ specification
\* the accounts the functions are deployed on: one regular admin with a row in
\* 'admins', and the super admin, who has none and has signed in before (the
\* superadmin claim is set)
DeployedAdmins ==
    "admin@x.in" :> [role |-> "admin", assignedDistricts |-> {Udupi}, active |-> TRUE,
                  createdAt |-> 0, createdBy |-> "super@x.in"]

DeployedAuthUsers ==
    [e \in {"admin@x.in", "super@x.in"} |->
        IF e = "super@x.in" THEN [uid |-> "u2", customClaims |-> [superadmin |-> TRUE]]
        ELSE [uid |-> "u1", customClaims |-> EmptyFn]]

Init ==
    /\ sos_alerts = EmptyFn
    /\ blocked_users = DeployedBlockedUsers
    /\ fcm = [count |-> 0]
    /\ now = 0
    /\ FEATURES = [ENABLE_SOS_ALERT_SNAPSHOT |-> TRUE, BLOCKED_USERS |-> TRUE]
    /\ proc = [r \in Slots |-> Idle]
    /\ admins = DeployedAdmins
    /\ auth_users = DeployedAuthUsers

Next ==
    \/ Tick
    \/ \E r \in Slots, body \in SosBodies, lookup \in Outcomes : SosCheck(r, body, lookup)
    \/ \E r \in Slots, send \in Outcomes : SosSend(r, send)
    \/ \E r \in Slots, write \in Outcomes : SosStore(r, write)
    \/ \E r \in Slots, scan \in Outcomes : SweepScan(r, scan)
    \/ \E r \in Slots, commit \in Outcomes : SweepCommit(r, commit)
    \/ \E r \in Slots, req \in AdminRequests, lookup \in Outcomes :
          \E grant \in GrantOutcomes(req.headers) :
          BlockCheck(r, req, grant, lookup)
    \/ \E r \in Slots, write \in Outcomes : BlockWrite(r, write)
    \/ \E r \in Slots, req \in AdminRequests, lookup \in Outcomes :
          \E grant \in GrantOutcomes(req.headers) :
          UnblockCheck(r, req, grant, lookup)
    \/ \E r \in Slots, write \in Outcomes : UnblockDelete(r, write)

Spec == Init /\ [][Next]_vars

\* The administration of the admin accounts, one request at a time, from a
\* deployment in which the super admin has not signed in yet (no superadmin
\* claim is set).
FreshAuthUsers ==
    [e \in {"admin@x.in", "super@x.in"} |->
        [uid |-> IF e = "super@x.in" THEN "u2" ELSE "u1", customClaims |-> EmptyFn]]

InitAdmin ==
    /\ sos_alerts = EmptyFn
    /\ blocked_users = DeployedBlockedUsers
    /\ fcm = [count |-> 0]
    /\ now = 0
    /\ FEATURES = [ENABLE_SOS_ALERT_SNAPSHOT |-> TRUE, BLOCKED_USERS |-> TRUE]
    /\ proc = [r \in Slots |-> Idle]
    /\ admins = DeployedAdmins
    /\ auth_users = FreshAuthUsers

NextAdmin ==
    \/ Tick
    \/ \E r \in Slots, req \in ListRequests, read \in Outcomes :
          \E grant \in GrantOutcomes(req.headers) :
          AdminsList(r, req, grant, read)
    \/ \E r \in Slots, req \in CreateRequests, lookup \in Outcomes :
          \E grant \in GrantOutcomes(req.headers) :
          AdminCreateCheck(r, req, grant, lookup)
    \/ \E r \in Slots, create \in Outcomes : AdminCreateUser(r, create)
    \/ \E r \in Slots, write \in Outcomes : AdminCreateWrite(r, write)
    \/ \E r \in Slots, req \in UpdateRequests, lookup \in Outcomes :
          \E grant \in GrantOutcomes(req.headers) :
          AdminUpdateCheck(r, req, grant, lookup)
    \/ \E r \in Slots, write \in Outcomes : AdminUpdateWrite(r, write)
    \/ \E r \in Slots, req \in DeleteRequests, lookup \in Outcomes :
          \E grant \in GrantOutcomes(req.headers) :
          AdminDeleteCheck(r, req, grant, lookup)
    \/ \E r \in Slots, remove \in Outcomes : AdminDeleteUser(r, remove)
    \/ \E r \in Slots, write \in Outcomes : AdminDeleteWrite(r, write)

SpecAdmin == InitAdmin /\ [][NextAdmin]_vars

\* The dashboard in use, one request at a time: the routes that read, the
\* block list being edited, and the super admin changing, deactivating and
\* deleting the account of the regular admin.  The store holds the rows of
\* earlier requests: a raise of A in one district, a raise of B in another, a
\* resolve of C who never raised; A is blocked.
DashAlerts ==
    ("A" :> alertDataOf("A", TRUE, sosStoreArgs(SosBody("A", "sos_alert", L1, UFull)), 0))
    @@ ("B" :> alertDataOf("B", TRUE,
                           sosStoreArgs(SosBody("B", "sos_alert", L2, UDistrictOnly)), 0))
    @@ ("C" :> alertDataOf("C", FALSE, EmptyFn, 0))

DashBlockedUsers ==
    DeployedBlockedUsers @@ ("A" :> blockDataOf([reason |-> "spam"], "admin@x.in", 0))

DashWriteRequests == {[headers |-> h] : h \in UnauthHeaders}

DashUpdateRequests ==
    {[headers |-> HSuper2, params |-> [email |-> "admin@x.in"], body |-> b] :
        b \in {[active |-> FALSE], [active |-> TRUE], [assignedDistricts |-> {}],
               [assignedDistricts |-> {DK}]}}
    \cup {[headers |-> h, params |-> [email |-> "admin@x.in"], body |-> [active |-> FALSE]] :
             h \in UnauthHeaders}

DashDeleteRequests ==
    {[headers |-> h, params |-> [email |-> "admin@x.in"]] : h \in {HSuper2} \cup UnauthHeaders}

DashCreateRequests == {[headers |-> h, body |-> NewAdminBody] : h \in UnauthHeaders}

InitDash ==
    /\ sos_alerts = DashAlerts
    /\ blocked_users = DashBlockedUsers
    /\ fcm = [count |-> 0]
    /\ now = 0
    /\ FEATURES = [ENABLE_SOS_ALERT_SNAPSHOT |-> TRUE, BLOCKED_USERS |-> TRUE]
    /\ proc = [r \in Slots |-> Idle]
    /\ admins = DeployedAdmins
    /\ auth_users = DeployedAuthUsers

NextDash ==
    \/ \E r \in Slots, req \in DashRequests, lookup, read \in Outcomes :
          \E grant \in GrantOutcomes(req.headers) : UsersList(r, req, grant, lookup, read)
    \/ \E r \in Slots, req \in DashRequests, lookup \in Outcomes :
          \E grant \in GrantOutcomes(req.headers) : Profile(r, req, grant, lookup)
    \/ \E r \in Slots, req \in DashRequests, read \in Outcomes :
          BlockedUsersList(r, req, read)
    \/ \E r \in Slots, req \in AlertsRequests, read \in Outcomes :
          SosAlertsList(r, req, read)
    \/ \E r \in Slots, req \in AdminRequests, lookup \in Outcomes :
          \E grant \in GrantOutcomes(req.headers) : BlockCheck(r, req, grant, lookup)
    \/ \E r \in Slots, write \in Outcomes : BlockWrite(r, write)
    \/ \E r \in Slots, req \in AdminRequests, lookup \in Outcomes :
          \E grant \in GrantOutcomes(req.headers) : UnblockCheck(r, req, grant, lookup)
    \/ \E r \in Slots, write \in Outcomes : UnblockDelete(r, write)
    \/ \E r \in Slots, req \in DashWriteRequests, read \in Outcomes :
          \E grant \in GrantOutcomes(req.headers) : AdminsList(r, req, grant, read)
    \/ \E r \in Slots, req \in DashCreateRequests, lookup \in Outcomes :
          \E grant \in GrantOutcomes(req.headers) : AdminCreateCheck(r, req, grant, lookup)
    \/ \E r \in Slots, req \in DashUpdateRequests, lookup \in Outcomes :
          \E grant \in GrantOutcomes(req.headers) : AdminUpdateCheck(r, req, grant, lookup)
    \/ \E r \in Slots, write \in Outcomes : AdminUpdateWrite(r, write)
    \/ \E r \in Slots, req \in DashDeleteRequests, lookup \in Outcomes :
          \E grant \in GrantOutcomes(req.headers) : AdminDeleteCheck(r, req, grant, lookup)
    \/ \E r \in Slots, remove \in Outcomes : AdminDeleteUser(r, remove)
    \/ \E r \in Slots, write \in Outcomes : AdminDeleteWrite(r, write)

SpecDash == InitDash /\ [][NextDash]_vars

\* The functions redeployed with the snapshot feature turned off, on the rows
\* that were stored while it was on; sender B is blocked.
OffBlockedUsers == "B" :> blockDataOf([reason |-> "spam"], "admin@x.in", 0)

InitOff ==
    /\ sos_alerts = DashAlerts
    /\ blocked_users = OffBlockedUsers
    /\ fcm = [count |-> 0]
    /\ now = 0
    /\ FEATURES = [ENABLE_SOS_ALERT_SNAPSHOT |-> FALSE, BLOCKED_USERS |-> TRUE]
    /\ proc = [r \in Slots |-> Idle]
    /\ admins = DeployedAdmins
    /\ auth_users = DeployedAuthUsers

NextOff ==
    \/ Tick
    \/ \E r \in Slots, body \in SosBodies, lookup \in Outcomes : SosCheck(r, body, lookup)
    \/ \E r \in Slots, send \in Outcomes : SosSend(r, send)
    \/ \E r \in Slots, write \in Outcomes : SosStore(r, write)
    \/ \E r \in Slots, scan \in Outcomes : SweepScan(r, scan)
    \/ \E r \in Slots, req \in AlertsRequests, read \in Outcomes :
          SosAlertsList(r, req, read)

SpecOff == InitOff /\ [][NextOff]_vars

\* A raise and a resolve of sender A served at the same time: each handler
\* may run whenever the other is at an await.  A has the row of an earlier
\* raise from another district.
RaceStart ==
    "A" :> alertDataOf("A", TRUE, sosStoreArgs(SosBody("A", "sos_alert", L1, UDistrictOnly)), 0)

\* slot 1 serves the raise and slot 2 the resolve
RaceBodies(r) ==
    IF r = 1 THEN {SosBody("A", "sos_alert", L2, UComma)}
    ELSE IF r = 2 THEN {SosBody("A", "stop", L1, UFull)}
    ELSE {}

RaceArrive(r, body, lookup) ==
    /\ proc[r].pc = "idle"
    /\ SosArrive(r, body, lookup)

InitRace ==
    /\ sos_alerts = RaceStart
    /\ blocked_users = DeployedBlockedUsers
    /\ fcm = [count |-> 0]
    /\ now = 0
    /\ FEATURES = [ENABLE_SOS_ALERT_SNAPSHOT |-> TRUE, BLOCKED_USERS |-> TRUE]
    /\ proc = [r \in Slots |-> Idle]
    /\ admins = DeployedAdmins
    /\ auth_users = DeployedAuthUsers

NextRace ==
    \/ Tick
    \/ \E r \in Slots, lookup \in Outcomes : \E body \in RaceBodies(r) :
          RaceArrive(r, body, lookup)
    \/ \E r \in Slots, send \in Outcomes : SosSend(r, send)
    \/ \E r \in Slots, write \in Outcomes : SosStore(r, write)

SpecRace == InitRace /\ [][NextRace]_vars

\* The scheduled job and a raise of sender A served at the same time: slot 1
\* runs expireOldAlerts and slot 2 the raise, each whenever the other is at an
\* await.  A has the active row of an earlier raise.
ExpiryRaceBodies(r) == IF r = 2 THEN {SosBody("A", "sos_alert", L2, UComma)} ELSE {}

ExpiryRaceSweep(r, scan) ==
    /\ r = 1
    /\ proc[r].pc = "idle"
    /\ SweepArrive(r, scan)

NextExpiryRace ==
    \/ Tick
    \/ \E r \in Slots, scan \in Outcomes : ExpiryRaceSweep(r, scan)
    \/ \E r \in Slots, commit \in Outcomes : SweepCommit(r, commit)
    \/ \E r \in Slots, lookup \in Outcomes : \E body \in ExpiryRaceBodies(r) :
          RaceArrive(r, body, lookup)
    \/ \E r \in Slots, send \in Outcomes : SosSend(r, send)
    \/ \E r \in Slots, write \in Outcomes : SosStore(r, write)

SpecExpiryRace == InitRace /\ [][NextExpiryRace]_vars

\* Runs of the scheduled job that overlap: every slot runs expireOldAlerts
\* once, each whenever the others are at an await.  The store holds the rows
\* of earlier requests: a raise of A two thresholds before time 0, a raise of
\* B one threshold before, and a resolve of C who never raised.
SweepsAlerts ==
    ("A" :> alertDataOf("A", TRUE, sosStoreArgs(SosBody("A", "sos_alert", L1, UFull)),
                        (0 - 2) * TickMs))
    @@ ("B" :> alertDataOf("B", TRUE,
                           sosStoreArgs(SosBody("B", "sos_alert", L2, UDistrictOnly)),
                           (0 - 1) * TickMs))
    @@ ("C" :> alertDataOf("C", FALSE, EmptyFn, (0 - 2) * TickMs))

OverlapSweep(r, scan) ==
    /\ proc[r].pc = "idle"
    /\ SweepArrive(r, scan)

InitSweeps ==
    /\ sos_alerts = SweepsAlerts
    /\ blocked_users = DeployedBlockedUsers
    /\ fcm = [count |-> 0]
    /\ now = 0
    /\ FEATURES = [ENABLE_SOS_ALERT_SNAPSHOT |-> TRUE, BLOCKED_USERS |-> TRUE]
    /\ proc = [r \in Slots |-> Idle]
    /\ admins = DeployedAdmins
    /\ auth_users = DeployedAuthUsers

NextSweeps ==
    \/ Tick
    \/ \E r \in Slots, scan \in Outcomes : OverlapSweep(r, scan)
    \/ \E r \in Slots, commit \in Outcomes : SweepCommit(r, commit)

SpecSweeps == InitSweeps /\ [][NextSweeps]_vars

\* Two block-user requests about sender A, who has no record, served at the
\* same time: slot 1 serves the regular admin's and slot 2 the super admin's,
\* each whenever the other is at an await.
BlockRaceRequests(r) ==
    IF r = 1 THEN {[headers |-> BearerAdmin, body |-> [sender_id |-> "A", reason |-> "spam"]]}
    ELSE IF r = 2
    THEN {[headers |-> HSuper2, body |-> [sender_id |-> "A", reason |-> "abuse"]]}
    ELSE {}

BlockRaceArrive(r, request, grant, lookup) ==
    /\ proc[r].pc = "idle"
    /\ BlockArrive(r, request, grant, lookup)

NextBlockRace ==
    \/ Tick
    \/ \E r \in Slots, lookup \in Outcomes : \E req \in BlockRaceRequests(r) :
          \E grant \in GrantOutcomes(req.headers) : BlockRaceArrive(r, req, grant, lookup)
    \/ \E r \in Slots, write \in Outcomes : BlockWrite(r, write)

SpecBlockRace == Init /\ [][NextBlockRace]_vars

\* The deployed functions running on: slot 1 serves the POST /sos requests of
\* sender A, one after the other, and slot 2 the runs of the scheduled job,
\* which fires whatever slot 1 is doing.  A request is served within one tick
\* of the clock (a tick is an hour), and the clock of the model stops at
\* MaxTime, so a raise is taken up only while the clock can still run past
\* the threshold of the row it writes.
LiveBodies == {SosBody("A", "sos_alert", L2, UComma), SosBody("A", "stop", L1, UFull)}

LiveTick ==
    /\ Quiet(1)
    /\ Tick

LiveArrive(r, body, lookup) ==
    /\ r = 1
    /\ Quiet(r)
    /\ fcm.count < MaxSent
    /\ body.sos_type = "sos_alert" => now + 2 <= MaxTime
    /\ SosArrive(r, body, lookup)

LiveSweep(r, scan) ==
    /\ r = 2
    /\ Quiet(r)
    /\ SweepArrive(r, scan)

NextLive ==
    \/ LiveTick
    \/ \E r \in Slots, body \in LiveBodies, lookup \in Outcomes : LiveArrive(r, body, lookup)
    \/ \E r \in Slots, send \in Outcomes : SosSend(r, send)
    \/ \E r \in Slots, write \in Outcomes : SosStore(r, write)
    \/ \E r \in Slots, scan \in Outcomes : LiveSweep(r, scan)
    \/ \E r \in Slots, commit \in Outcomes : SweepCommit(r, commit)

\* Time advances; a handler that is at an await is resumed; the scheduler
\* fires the job again and again, and its query and its commit do not fail
\* for ever.
FairLive ==
    /\ SF_vars(LiveTick)
    /\ \A r \in Slots :
          /\ WF_vars(\E send \in Outcomes : SosSend(r, send))
          /\ WF_vars(\E write \in Outcomes : SosStore(r, write))
          /\ SF_vars(LiveSweep(r, "ok"))
          /\ SF_vars(SweepCommit(r, "ok"))

SpecLive == InitRace /\ [][NextLive]_vars /\ FairLive

\* ================================================================== claims
\* Steps of the handlers, told from the slot before and after.

\* slot r answers a POST /sos in this step
SosAnswers(r) == proc[r].pc # "done" /\ proc'[r].pc = "done" /\ proc'[r].op = "sos"

\* slot r takes a POST /sos in this step and runs it up to its first answer or
\* to the send
SosChecked(r) ==
    /\ Quiet(r)
    /\ proc'[r].op = "sos"
    /\ proc'[r] # proc[r]

\* the block list holds a record of s that says blocked: true
BlockedTrue(s) ==
    /\ s \in DOMAIN blocked_users
    /\ Has(blocked_users[s], "blocked")
    /\ blocked_users[s].blocked = TRUE

\* the body names a sender, a type t, a location and a non-empty district
WellFormed(body, t) ==
    /\ HasStr(body, "sender_id")
    /\ HasStr(body, "sos_type") /\ body.sos_type = t
    /\ Has(body, "location")
    /\ Has(body, "userInfo") /\ HasText(body.userInfo, "district")

\* the handler of slot r has answered a well-formed request of type t
Answered(r, t) == proc[r].pc = "done" /\ proc[r].op = "sos" /\ WellFormed(proc[r].body, t)

\* ---- C1
\* C1, as stated: a resolve with a non-empty district from a sender who is
\* blocked succeeds: it is answered 200.
C1_BlockedResolveSucceeds ==
    \A r \in Slots :
        Answered(r, "stop") /\ BlockedTrue(proc[r].body.sender_id) => proc[r].status = 200

\* C1, amended: the block list gates resolution as it gates raising.  A resolve
\* from a sender whose block record says blocked: true (the lookup succeeding)
\* is answered 403, sends nothing and writes no snapshot.
C1_BlockedResolveForbidden ==
    [][\A r \in Slots :
          (/\ SosChecked(r)
           /\ WellFormed(proc'[r].body, "stop")
           /\ proc'[r].lookup = "ok"
           /\ BlockedTrue(proc'[r].body.sender_id))
          => (/\ proc'[r].pc = "done"
              /\ proc'[r].status = 403
              /\ fcm' = fcm
              /\ sos_alerts' = sos_alerts)]_vars

\* a blocked sender's resolve has been answered 403
C1_Witness ==
    \E r \in Slots :
        /\ Answered(r, "stop")
        /\ BlockedTrue(proc[r].body.sender_id)
        /\ proc[r].lookup = "ok"
        /\ proc[r].status = 403

\* ---- C2
\* C2: a well-formed raise from a sender whose block record says blocked: true
\* (the lookup succeeding) is answered 403, sends nothing and leaves the
\* snapshots as they were; with no record, or a record that does not say
\* blocked: true, the raise is not answered 403 and goes on to the send.
C2_BlockedRaiseForbidden ==
    [][\A r \in Slots :
          (/\ SosChecked(r)
           /\ WellFormed(proc'[r].body, "sos_alert")
           /\ proc'[r].lookup = "ok")
          => IF BlockedTrue(proc'[r].body.sender_id)
             THEN /\ proc'[r].pc = "done"
                  /\ proc'[r].status = 403
                  /\ fcm' = fcm
                  /\ sos_alerts' = sos_alerts
             ELSE proc'[r].pc # "done"]_vars

\* a blocked sender's raise has been answered 403
C2_Witness ==
    \E r \in Slots :
        /\ Answered(r, "sos_alert")
        /\ BlockedTrue(proc[r].body.sender_id)
        /\ proc[r].lookup = "ok"
        /\ proc[r].status = 403

\* ---- C3
\* the snapshot of sender s says what a request of type t asks for
Reflects(coll, s, t) ==
    /\ s \in DOMAIN coll
    /\ coll[s].active = (t = "sos_alert")

\* C3, as stated: when a raise or resolve that passed the validation and the
\* block check ends with a delivery failure, the stored snapshot of the sender
\* already reflects the requested transition.
C3_WrittenBeforeSend ==
    \A r \in Slots :
        (/\ proc[r].pc = "done" /\ proc[r].op = "sos" /\ proc[r].status = 500)
        => Reflects(sos_alerts, proc[r].body.sender_id, proc[r].body.sos_type)

\* C3, amended: the fan-out is attempted first and the snapshot write is issued
\* only after the send succeeded.  No step up to and including the send changes
\* a snapshot, so a request that ends with a delivery failure leaves the stored
\* snapshots exactly as it found them.
C3_SendBeforeWrite ==
    [][\A r \in Slots :
          (/\ proc'[r].op = "sos"
           /\ proc'[r] # proc[r]
           /\ (Quiet(r) \/ \E i \in DOMAIN proc[r].todo : proc[r].todo[i] = "send"))
          => sos_alerts' = sos_alerts]_vars

\* a raise has ended with a delivery failure while the sender has no snapshot
C3_Witness ==
    \E r \in Slots :
        /\ Answered(r, "sos_alert")
        /\ proc[r].status = 500
        /\ proc[r].body.sender_id \notin DOMAIN sos_alerts

\* ---- C4
PayloadFields == {"location", "userInfo", "district", "state"}

\* C4, as stated: every snapshot row with active == false carries no location
\* and no userInfo.
C4_InactiveCarriesNoPayload ==
    \A s \in DOMAIN sos_alerts :
        ~sos_alerts[s].active
        => ~Has(sos_alerts[s], "location") /\ ~Has(sos_alerts[s], "userInfo")

\* C4, amended: the write that flips active to false clears nothing.  A step
\* that leaves a row inactive (a resolve or an expiry) leaves its location,
\* userInfo, district and state as they were: what the row had it keeps, and
\* what it did not have it does not get.
C4_InactiveKeepsPayload ==
    [][\A s \in DOMAIN sos_alerts' :
          ~sos_alerts'[s].active
          => \A f \in PayloadFields :
                IF s \in DOMAIN sos_alerts /\ Has(sos_alerts[s], f)
                THEN Has(sos_alerts'[s], f) /\ sos_alerts'[s][f] = sos_alerts[s][f]
                ELSE ~Has(sos_alerts'[s], f)]_vars

\* a resolve has been answered 200 and stored, and the row still carries the
\* location and userInfo of the raise
C4_Witness ==
    \E r \in Slots :
        /\ Answered(r, "stop") /\ proc[r].status = 200 /\ proc[r].write = "ok"
        /\ LET s == proc[r].body.sender_id
           IN /\ s \in DOMAIN sos_alerts
              /\ ~sos_alerts[s].active
              /\ Has(sos_alerts[s], "location") /\ Has(sos_alerts[s], "userInfo")

\* ---- C5
\* slot r stores the snapshot of a request of type t in this step
SosStores(r, t) == proc[r].pc = "sos_store" /\ proc'[r] # proc[r] /\ proc[r].body.sos_type = t

\* slot r sends the message of a request of type t in this step
SosSends(r, t) == proc[r].pc = "sos_send" /\ proc'[r] # proc[r] /\ proc[r].body.sos_type = t

\* C5, as stated: a resolve with a non-empty district is valid whatever the
\* state of the sender and always leaves active == false.
C5_ResolveAlwaysInactive ==
    \A r \in Slots :
        (/\ proc[r].pc = "done" /\ proc[r].op = "sos"
         /\ HasStr(proc[r].body, "sender_id")
         /\ HasStr(proc[r].body, "sos_type") /\ proc[r].body.sos_type = "stop"
         /\ HasText(UserInfoOf(proc[r].body), "district"))
        => /\ proc[r].status = 200
           /\ Reflects(sos_alerts, proc[r].body.sender_id, "stop")

\* C5, amended: a resolve with a non-empty district and a location, from a
\* sender the block list does not block, passes the checks whatever the row of
\* the sender is (none, inactive, active, expired).  Its send, when FCM accepts
\* it, is one resolved notification to the district, and nothing else of the
\* request sends.  Its write, when it succeeds, leaves active == false: a row
\* that was already inactive changes in timestamp only, so a second resolve
\* leaves what the first left apart from the timestamp.  The resolve is
\* answered 200 whether the write succeeded or not, and a failed write leaves
\* the rows as they were.
C5_ResolveFromAnyState ==
    [][\A r \in Slots :
          /\ (SosChecked(r) /\ WellFormed(proc'[r].body, "stop")
                /\ ~BlockedTrue(proc'[r].body.sender_id))
             => proc'[r].pc = "sos_send"
          /\ (proc'[r].op = "sos" /\ proc'[r] # proc[r] /\ fcm' # fcm
                /\ HasStr(proc'[r].body, "sos_type") /\ proc'[r].body.sos_type = "stop")
             => /\ SosSends(r, "stop")
                /\ fcm'.count = fcm.count + 1
                /\ proc[r].message.type = "sos_resolved"
                /\ proc[r].message.topic = <<"district-">> \o proc[r].body.userInfo.district
          /\ SosStores(r, "stop")
             => LET s == proc[r].body.sender_id
                IN /\ proc'[r].pc = "done" /\ proc'[r].status = 200
                   /\ Has(proc'[r], "messageId")
                   /\ \A t \in DOMAIN sos_alerts' \ {s} :
                         t \in DOMAIN sos_alerts /\ sos_alerts'[t] = sos_alerts[t]
                   /\ IF proc'[r].write = "fail" THEN sos_alerts' = sos_alerts
                      ELSE /\ s \in DOMAIN sos_alerts'
                           /\ ~sos_alerts'[s].active
                           /\ sos_alerts'[s].timestamp = DateNow
                           /\ (s \in DOMAIN sos_alerts /\ ~sos_alerts[s].active)
                              => sos_alerts'[s] =
                                    [sos_alerts[s] EXCEPT !.timestamp = DateNow]]_vars

\* a resolve has been answered 200 for a sender whose row was expired by the
\* sweeper, at a later time than the expiry
C5_Witness ==
    \E r \in Slots :
        /\ Answered(r, "stop") /\ proc[r].status = 200 /\ proc[r].write = "ok"
        /\ LET s == proc[r].body.sender_id
           IN /\ s \in DOMAIN sos_alerts
              /\ ~sos_alerts[s].active
              /\ Has(sos_alerts[s], "expiredBy")
              /\ sos_alerts[s].timestamp = DateNow

\* ---- C6
\* what the code is to store and derive for each userInfo of the inputs, worked
\* out by hand from the JavaScript: the reporter it keeps, and the region
ExpectedReporter(info) ==
    CASE info = UFull -> [name |-> "Jane", mobile_number |-> "+91", message |-> ""]
      [] info = UComma -> [name |-> "Ravi", mobile_number |-> "+92", message |-> "help"]
      [] info = UDistrictOnly -> [name |-> "Unknown", mobile_number |-> "N/A", message |-> ""]

ExpectedRegion(info) ==
    CASE info = UFull -> <<"K", "A">>
      [] info = UComma -> <<>>
      [] info = UDistrictOnly -> <<"D", " ", "K">>

\* C6, as stated: right after a raise that was answered 200 the snapshot of the
\* sender has active == true, the district and the location of the request,
\* and, where the request gives a free-text location, a region equal to its
\* last comma-separated segment, trimmed and upper-cased.
C6_RaiseStoresInput ==
    \A r \in Slots :
        (Answered(r, "sos_alert") /\ proc[r].status = 200)
        => LET s == proc[r].body.sender_id
               info == proc[r].body.userInfo
           IN /\ s \in DOMAIN sos_alerts
              /\ sos_alerts[s].active
              /\ sos_alerts[s].district = info.district
              /\ sos_alerts[s].location = proc[r].body.location
              /\ HasText(info, "location")
                 => /\ Has(sos_alerts[s], "state")
                    /\ sos_alerts[s].state = ExpectedRegion(info)

\* the state field of the row of s after a write that derived region
RegionStored(s, region) ==
    IF region # <<>>
    THEN Has(sos_alerts'[s], "state") /\ sos_alerts'[s].state = region
    ELSE IF s \in DOMAIN sos_alerts /\ Has(sos_alerts[s], "state")
         THEN Has(sos_alerts'[s], "state") /\ sos_alerts'[s].state = sos_alerts[s].state
         ELSE ~Has(sos_alerts'[s], "state")

\* C6, amended: a raise is answered 200 once its message is sent, whether the
\* snapshot write succeeded or not.  When the write succeeded the row has
\* active == true, the district and location of the request, timestamp the
\* time of the write, and userInfo {name or 'Unknown', phone or mobile_number
\* or 'N/A', message or ''}.  The region is the last comma-separated segment,
\* trimmed and upper-cased, of info.location, or of the district with '_' as
\* space and its words capitalised when info.location is missing; it is stored
\* as state when it is not empty, and an empty region leaves state as it was.
\* When the write failed the rows are as they were.
C6_RaiseStoresPayload ==
    [][\A r \in Slots :
          SosStores(r, "sos_alert")
          => LET s == proc[r].body.sender_id
                 info == proc[r].body.userInfo
             IN /\ proc'[r].pc = "done" /\ proc'[r].status = 200
                /\ IF proc'[r].write = "fail" THEN sos_alerts' = sos_alerts
                   ELSE /\ s \in DOMAIN sos_alerts'
                        /\ sos_alerts'[s].sender_id = s
                        /\ sos_alerts'[s].active
                        /\ sos_alerts'[s].district = info.district
                        /\ sos_alerts'[s].location = proc[r].body.location
                        /\ sos_alerts'[s].userInfo = ExpectedReporter(info)
                        /\ sos_alerts'[s].timestamp = DateNow
                        /\ RegionStored(s, ExpectedRegion(info))]_vars

\* a first raise has been answered 200 and stored, with the region of its
\* free-text location
C6_Witness ==
    \E r \in Slots :
        /\ Answered(r, "sos_alert") /\ proc[r].status = 200 /\ proc[r].write = "ok"
        /\ proc[r].body.userInfo = UFull
        /\ sos_alerts[proc[r].body.sender_id].active
        /\ sos_alerts[proc[r].body.sender_id].state = <<"K", "A">>
        /\ sos_alerts[proc[r].body.sender_id].timestamp = DateNow

\* ---- C7
\* row s exists and is active
ActiveRow(coll, s) == s \in DOMAIN coll /\ coll[s].active

\* C7, as stated: a raise for a sender who is already active overwrites the
\* payload of the snapshot with the new one (location, userInfo, district and
\* the region derived from the request) and refreshes the timestamp.
C7_ReraiseOverwrites ==
    [][\A r \in Slots :
          (SosStores(r, "sos_alert") /\ ActiveRow(sos_alerts, proc[r].body.sender_id))
          => LET s == proc[r].body.sender_id
                 info == proc[r].body.userInfo
             IN /\ sos_alerts'[s].location = proc[r].body.location
                /\ sos_alerts'[s].userInfo = ExpectedReporter(info)
                /\ sos_alerts'[s].district = info.district
                /\ sos_alerts'[s].timestamp = DateNow
                /\ ExpectedRegion(info) # <<>> => sos_alerts'[s].state = ExpectedRegion(info)
                /\ ExpectedRegion(info) = <<>> => ~Has(sos_alerts'[s], "state")]_vars

\* C7, amended: a raise for a sender who is already active passes the checks
\* like any other (no raise is suppressed because of the row), its send is a
\* second alert notification to the district, and it is answered 200.  When
\* its snapshot write succeeds it overwrites location, userInfo and district
\* with those of the request and sets timestamp to the time of the write; it
\* overwrites state when the derived region is not empty, and an empty region
\* leaves the state of the earlier raise.  When the write fails the row keeps
\* the earlier payload and timestamp.
C7_ReraiseAccepted ==
    [][\A r \in Slots :
          LET s == proc'[r].body.sender_id
              info == proc'[r].body.userInfo
          IN /\ (SosChecked(r) /\ WellFormed(proc'[r].body, "sos_alert")
                   /\ ActiveRow(sos_alerts, s) /\ ~BlockedTrue(s))
                => proc'[r].pc = "sos_send"
             /\ (SosSends(r, "sos_alert") /\ ActiveRow(sos_alerts, s)
                   /\ proc'[r].pc # "done")
                => /\ fcm'.count = fcm.count + 1
                   /\ proc[r].message.type = "sos_alert"
                   /\ proc[r].message.sender_id = s
                   /\ proc[r].message.topic = <<"district-">> \o info.district
             /\ (SosStores(r, "sos_alert") /\ ActiveRow(sos_alerts, s))
                => /\ proc'[r].status = 200
                   /\ IF proc'[r].write = "fail" THEN sos_alerts' = sos_alerts
                      ELSE /\ sos_alerts'[s].active
                           /\ sos_alerts'[s].location = proc[r].body.location
                           /\ sos_alerts'[s].userInfo = ExpectedReporter(info)
                           /\ sos_alerts'[s].district = info.district
                           /\ sos_alerts'[s].timestamp = DateNow
                           /\ RegionStored(s, ExpectedRegion(info))]_vars

\* a second raise of another shape, at a later time, has been stored over the
\* first and has kept the state of the first
C7_Witness ==
    \E r \in Slots :
        /\ Answered(r, "sos_alert") /\ proc[r].status = 200 /\ proc[r].write = "ok"
        /\ proc[r].messageId = 2
        /\ proc[r].body.userInfo = UComma
        /\ LET row == sos_alerts[proc[r].body.sender_id]
           IN /\ row.active
              /\ row.location = L2
              /\ row.userInfo.name = "Ravi"
              /\ Has(row, "state") /\ row.state = <<"K", "A">>
              /\ row.timestamp = DateNow /\ DateNow > 0

\* ---- C8
\* slot r takes a step of a sweep
SweepSteps(r) == proc'[r] # proc[r] /\ proc'[r].op = "sweep"

\* the rows of coll that are active and whose timestamp is more than the
\* threshold before dateNow
StaleRows(coll, dateNow) ==
    {s \in DOMAIN coll :
        coll[s].active /\ dateNow - coll[s].timestamp > ALERT_EXPIRATION_THRESHOLD_MS}

\* C8: a sweep selects exactly the active rows whose timestamp is older than
\* the threshold, and its commit sets exactly those rows to active == false
\* with expiredBy "scheduled_job" and expiredAt the time of the commit; the
\* newer active rows and the inactive rows stay as they were, and no step of a
\* sweep sends a notification.
C8_SweepExpiresExactlyStale ==
    [][\A r \in Slots :
          SweepSteps(r)
          => /\ fcm' = fcm
             /\ Quiet(r)
                => /\ (Has(proc'[r], "scan") /\ proc'[r].scan = "ok")
                      => proc'[r].batch = StaleRows(sos_alerts, DateNow)
                   /\ sos_alerts' = sos_alerts
             /\ (proc[r].pc = "sweep_commit" /\ proc'[r].commit = "ok")
                => /\ DOMAIN sos_alerts' = DOMAIN sos_alerts
                   /\ proc'[r].result.expired = Cardinality(proc[r].batch)
                   /\ \A s \in DOMAIN sos_alerts :
                         IF s \in proc[r].batch
                         THEN /\ ~sos_alerts'[s].active
                              /\ sos_alerts'[s].expiredBy = "scheduled_job"
                              /\ sos_alerts'[s].expiredAt = DateNow
                         ELSE sos_alerts'[s] = sos_alerts[s]]_vars

\* a sweep has expired a row and left a newer active row as it was
C8_Witness ==
    \E r \in Slots :
        /\ proc[r].pc = "done" /\ proc[r].op = "sweep" /\ ~proc[r].threw
        /\ proc[r].batch # {}
        /\ \A s \in proc[r].batch :
              ~sos_alerts[s].active /\ sos_alerts[s].expiredBy = "scheduled_job"
        /\ \E s \in DOMAIN sos_alerts \ proc[r].batch :
              sos_alerts[s].active /\ ~Has(sos_alerts[s], "expiredBy")

\* ---- C9
\* the rows a step changes
ChangedRows ==
    {s \in DOMAIN sos_alerts \cup DOMAIN sos_alerts' :
        \/ s \notin DOMAIN sos_alerts
        \/ s \notin DOMAIN sos_alerts'
        \/ sos_alerts'[s] # sos_alerts[s]}

\* C9: the rows a sweep selects are committed as one batch: a step of a sweep
\* changes either none of the rows or all of the rows it selected and no
\* others, so no state has some of them flipped and others not; a sweep that
\* selects no row makes no commit and changes nothing.
C9_SweepBatchAtomic ==
    [][\A r \in Slots :
          SweepSteps(r)
          => /\ ChangedRows \in {{}, proc'[r].batch}
             /\ proc'[r].pc = "sweep_commit" => proc'[r].batch # {}
             /\ proc'[r].batch = {} => Quiet(r) /\ proc'[r].pc = "done"
                                       /\ ~Has(proc'[r], "commit")
             /\ (proc[r].pc = "sweep_commit" /\ proc'[r].commit = "ok")
                => ChangedRows = proc[r].batch]_vars

\* a sweep that selected two rows has committed, and both are expired
C9_Witness ==
    \E r \in Slots :
        /\ proc[r].pc = "done" /\ proc[r].op = "sweep" /\ ~proc[r].threw
        /\ Cardinality(proc[r].batch) = 2
        /\ \A s \in proc[r].batch :
              ~sos_alerts[s].active /\ Has(sos_alerts[s], "expiredBy")

\* ---- C10
\* C10: when the query or the commit of a sweep fails, expireOldAlerts throws,
\* the scheduled function throws in turn (the scheduler sees a failed run,
\* never a completed one), and the step changes no row.
C10_SweepFailurePropagates ==
    [][\A r \in Slots :
          (SweepSteps(r) /\ proc'[r].pc = "done"
             /\ ((Has(proc'[r], "scan") /\ proc'[r].scan = "fail")
                   \/ (Has(proc'[r], "commit") /\ proc'[r].commit = "fail")))
          => /\ proc'[r].threw
             /\ proc'[r].harness = "failed"
             /\ proc'[r].result = EmptyFn
             /\ sos_alerts' = sos_alerts]_vars

\* a sweep whose commit failed has ended as a failed run, and the rows it had
\* selected are still active
C10_Witness ==
    \E r \in Slots :
        /\ proc[r].pc = "done" /\ proc[r].op = "sweep"
        /\ Has(proc[r], "commit") /\ proc[r].commit = "fail"
        /\ proc[r].harness = "failed"
        /\ proc[r].batch # {}
        /\ \A s \in proc[r].batch :
              sos_alerts[s].active /\ ~Has(sos_alerts[s], "expiredBy")

\* ---- C11
\* C11: when the lookup of the block list throws, isSenderBlocked answers
\* false: no request whose lookup failed is answered 403, and a well-formed
\* raise goes on to the send with the message of a sender who is not blocked,
\* whatever the block list holds.
C11_LookupFailureFailsOpen ==
    [][\A r \in Slots :
          (SosChecked(r) /\ proc'[r].lookup = "fail")
          => /\ ~(proc'[r].pc = "done" /\ proc'[r].status = 403)
             /\ WellFormed(proc'[r].body, "sos_alert")
                => /\ proc'[r].pc = "sos_send"
                   /\ proc'[r].message.type = "sos_alert"
                   /\ proc'[r].message.sender_id = proc'[r].body.sender_id]_vars

\* a raise of a blocked sender whose lookup failed has been answered 200 and
\* stored
C11_Witness ==
    \E r \in Slots :
        /\ Answered(r, "sos_alert")
        /\ BlockedTrue(proc[r].body.sender_id)
        /\ proc[r].lookup = "fail"
        /\ proc[r].status = 200
        /\ Reflects(sos_alerts, proc[r].body.sender_id, "sos_alert")

\* ---- C12
\* the body is a raise or a resolve
RaiseOrResolve(body) == HasStr(body, "sos_type") /\ body.sos_type \in {"sos_alert", "stop"}

\* C12, as stated: a raise or resolve whose district is missing or empty is
\* answered 400.
C12_MissingDistrictIs400 ==
    \A r \in Slots :
        (/\ proc[r].pc = "done" /\ proc[r].op = "sos"
         /\ RaiseOrResolve(proc[r].body)
         /\ ~HasText(UserInfoOf(proc[r].body), "district"))
        => proc[r].status = 400

\* C12, amended: a raise or resolve whose district is missing or empty is
\* rejected in the checks and sends nothing: with 403 when it names a sender, a
\* type and a location and the sender is found blocked (the block check comes
\* before the district check), with 400 otherwise.  Every message sent for a
\* raise or resolve goes to the topic district-<district> of the district of
\* that same request, which is not empty.
C12_DistrictRequiredForFanOut ==
    [][\A r \in Slots :
          /\ (SosChecked(r) /\ RaiseOrResolve(proc'[r].body)
                /\ ~HasText(UserInfoOf(proc'[r].body), "district"))
             => LET body == proc'[r].body
                    gated == /\ HasStr(body, "sender_id") /\ Has(body, "location")
                             /\ proc'[r].lookup = "ok" /\ BlockedTrue(body.sender_id)
                IN /\ proc'[r].pc = "done"
                   /\ proc'[r].status = IF gated THEN 403 ELSE 400
                   /\ fcm' = fcm
          /\ (proc[r].pc = "sos_send" /\ proc'[r] # proc[r])
             => /\ proc[r].body.userInfo.district # <<>>
                /\ proc[r].message.topic = <<"district-">> \o proc[r].body.userInfo.district
                /\ proc[r].message.district = proc[r].body.userInfo.district
          /\ fcm' # fcm => \E q \in Slots : proc[q].pc = "sos_send" /\ proc'[q] # proc[q]]_vars

\* after one message was sent, a request with an empty district has been
\* answered 400 by the district check and no second message was sent
C12_Witness ==
    \E r \in Slots :
        /\ proc[r].pc = "done" /\ proc[r].op = "sos" /\ proc[r].status = 400
        /\ proc[r].error = "Missing district in userInfo"
        /\ fcm.count = 1

\* ---- C13
\* the request fails one of the checks of the fields
Malformed(body) ==
    \/ ~HasStr(body, "sender_id") \/ ~HasStr(body, "sos_type") \/ ~Has(body, "location")
    \/ body.sos_type \notin {"sos_alert", "stop"}
    \/ ~HasText(UserInfoOf(body), "district")

\* C13: a POST /sos with a missing field, an invalid sos_type or a missing
\* district, or from a sender found blocked, is answered 400 or 403 in the
\* checks; and every POST /sos answered 400 or 403 is answered before any
\* await on FCM or on the snapshot, sends nothing and leaves the snapshots and
\* the block list as they were.
C13_RejectedChangesNothing ==
    [][\A r \in Slots :
          /\ (SosChecked(r)
                /\ (Malformed(proc'[r].body)
                      \/ (proc'[r].lookup = "ok" /\ BlockedTrue(proc'[r].body.sender_id))))
             => proc'[r].pc = "done" /\ proc'[r].status \in {400, 403}
          /\ (SosAnswers(r) /\ proc'[r].status \in {400, 403})
             => /\ Quiet(r)
                /\ ~Has(proc'[r], "messageId") /\ ~Has(proc'[r], "write")
                /\ fcm' = fcm
                /\ sos_alerts' = sos_alerts
                /\ blocked_users' = blocked_users
                /\ admins' = admins]_vars

\* a request of an invalid type has been answered 400 after a raise was sent
\* and stored, and the raise's row and message count are as the raise left them
C13_Witness ==
    \E r \in Slots :
        /\ proc[r].pc = "done" /\ proc[r].op = "sos" /\ proc[r].status = 400
        /\ proc[r].error = "Invalid sos_type"
        /\ fcm.count = 1
        /\ ActiveRow(sos_alerts, proc[r].body.sender_id)

\* ---- C14
\* C14, as stated: a stop request with a sender_id and a non-empty district and
\* no location is answered 200.
C14_ResolveNeedsNoLocation ==
    \A r \in Slots :
        (/\ proc[r].pc = "done" /\ proc[r].op = "sos"
         /\ HasStr(proc[r].body, "sender_id")
         /\ HasStr(proc[r].body, "sos_type") /\ proc[r].body.sos_type = "stop"
         /\ HasText(UserInfoOf(proc[r].body), "district")
         /\ ~Has(proc[r].body, "location"))
        => proc[r].status = 200

\* C14, amended: location is required of every request, of either type: a stop
\* request with no location is answered 400 'Missing required fields' by the
\* first check, sends nothing and leaves the snapshot of the sender as it was.
C14_LocationRequiredForResolve ==
    [][\A r \in Slots :
          (SosChecked(r) /\ ~Has(proc'[r].body, "location"))
          => /\ proc'[r].pc = "done"
             /\ proc'[r].status = 400
             /\ proc'[r].error = "Missing required fields"
             /\ fcm' = fcm
             /\ sos_alerts' = sos_alerts]_vars

\* a stop with no location has been answered 400 while the row of the sender
\* is active
C14_Witness ==
    \E r \in Slots :
        /\ proc[r].pc = "done" /\ proc[r].op = "sos" /\ proc[r].status = 400
        /\ HasStr(proc[r].body, "sos_type") /\ proc[r].body.sos_type = "stop"
        /\ ~Has(proc[r].body, "location")
        /\ ActiveRow(sos_alerts, proc[r].body.sender_id)

\* ---- C15
\* C15, as stated: a raise or resolve whose snapshot write failed does not
\* report success: it is answered 500.
C15_WriteFailureIs500 ==
    \A r \in Slots :
        (/\ proc[r].pc = "done" /\ proc[r].op = "sos"
         /\ Has(proc[r], "write") /\ proc[r].write = "fail")
        => proc[r].status = 500

\* C15, amended: storeSOSAlert catches a failed write and the handler does not
\* look at what it returns.  A raise or resolve whose snapshot write failed is
\* answered 200 with the id of the message it sent, and the snapshots are as
\* they were before the request.
C15_WriteFailureSwallowed ==
    [][\A r \in Slots :
          (proc[r].pc = "sos_store" /\ proc'[r] # proc[r] /\ proc'[r].write = "fail")
          => /\ proc'[r].pc = "done"
             /\ proc'[r].status = 200
             /\ Has(proc'[r], "messageId")
             /\ sos_alerts' = sos_alerts
             /\ fcm' = fcm]_vars

\* a resolve whose write failed has been answered 200 and the row of the
\* sender is still active
C15_Witness ==
    \E r \in Slots :
        /\ Answered(r, "stop") /\ proc[r].status = 200
        /\ proc[r].write = "fail"
        /\ ActiveRow(sos_alerts, proc[r].body.sender_id)

\* ---- C16
\* C16: when FCM rejects the message of a raise or resolve, the handler answers
\* 500 in that same step: it makes no second send, stores no snapshot and
\* carries no message id; a request is answered 200 only with the id of a
\* message FCM accepted.
C16_DeliveryFailureIs500 ==
    [][\A r \in Slots :
          /\ (proc[r].pc = "sos_send" /\ proc'[r] # proc[r] /\ fcm' = fcm)
             => /\ proc'[r].pc = "done"
                /\ proc'[r].status = 500
                /\ proc'[r].error = "Failed to send SOS alert"
                /\ ~Has(proc'[r], "messageId")
                /\ sos_alerts' = sos_alerts
          /\ (SosAnswers(r) /\ proc'[r].status = 200)
             => /\ Has(proc'[r], "messageId")
                /\ proc'[r].messageId \in 1..fcm'.count]_vars

\* a resolve has ended with a delivery failure: answered 500, and the row of
\* the sender is still active
C16_Witness ==
    \E r \in Slots :
        /\ Answered(r, "stop") /\ proc[r].status = 500
        /\ ~Has(proc[r], "messageId")
        /\ ActiveRow(sos_alerts, proc[r].body.sender_id)

\* ---- C17
\* slot r ends a block-user (op "block") or unblock-user (op "unblock") with
\* 200 in this step
AdminSucceeds(r, op) ==
    /\ proc[r].pc # "done" /\ proc'[r].pc = "done"
    /\ proc'[r].op = op /\ proc'[r].status = 200

\* the block list coll holds a record of s that says blocked: true
BlockedIn(coll, s) == s \in DOMAIN coll /\ Has(coll[s], "blocked") /\ coll[s].blocked = TRUE

\* C17: a block-user answered 200 leaves a record of the sender that says
\* blocked: true; that record stays until an unblock-user of the sender is
\* answered 200, which removes it; while it is there every well-formed raise
\* of the sender (the lookup succeeding) is answered 403, and once it is gone
\* the raise passes the checks and is answered 200 when its message is sent.
C17_BlockedUntilUnblocked ==
    [][\A r \in Slots :
          /\ AdminSucceeds(r, "block") => BlockedIn(blocked_users', proc'[r].body.sender_id)
          /\ AdminSucceeds(r, "unblock") => ~BlockedIn(blocked_users', proc'[r].body.sender_id)
          /\ \A s \in Senders :
                (BlockedTrue(s) /\ ~BlockedIn(blocked_users', s))
                => \E q \in Slots : AdminSucceeds(q, "unblock") /\ proc'[q].body.sender_id = s
          /\ (SosChecked(r) /\ WellFormed(proc'[r].body, "sos_alert")
                /\ proc'[r].lookup = "ok")
             => IF BlockedTrue(proc'[r].body.sender_id)
                THEN proc'[r].pc = "done" /\ proc'[r].status = 403
                ELSE proc'[r].pc = "sos_send"
          /\ (SosSends(r, "sos_alert") /\ fcm' # fcm) => proc'[r].pc = "sos_store"
          /\ SosStores(r, "sos_alert") => proc'[r].pc = "done" /\ proc'[r].status = 200]_vars

\* a raise of a sender blocked at an earlier time has been answered 403
C17_Witness ==
    \E r \in Slots :
        /\ Answered(r, "sos_alert") /\ proc[r].status = 403
        /\ BlockedTrue(proc[r].body.sender_id)
        /\ blocked_users[proc[r].body.sender_id].blockedAt < DateNow

\* ---- C18
\* the headers carry a bearer token that verifyIdToken accepts
ValidBearer(headers) ==
    /\ Has(headers, "authorization")
    /\ headers.authorization.scheme = "Bearer "
    /\ headers.authorization.token \in DOMAIN Tokens

\* slot r takes a block-user or unblock-user request in this step, from a
\* caller authenticateUser lets through (a super admin whose token lacks the
\* superadmin claim gets it set first), naming a sender, and the lookup of the
\* record succeeds
AdminChecked(r, op) ==
    /\ Quiet(r) /\ proc'[r] # proc[r] /\ proc'[r].op = op
    /\ ValidBearer(proc'[r].headers)
    /\ Has(proc'[r], "grant") => proc'[r].grant = "ok"
    /\ HasStr(proc'[r].body, "sender_id")
    /\ proc'[r].lookup = "ok"

\* the records of the block list other than that of s are as they were
OtherBlocksKept(s) ==
    /\ DOMAIN blocked_users' \ {s} = DOMAIN blocked_users \ {s}
    /\ \A t \in DOMAIN blocked_users \ {s} : blocked_users'[t] = blocked_users[t]

\* C18: a record of the block list is written with blocked: true or removed,
\* never set to a state that does not block.  block-user on a sender with no
\* record goes on to the write, which creates the record with blocked: true,
\* the reason, the caller and the time, and answers 200; on a sender already
\* blocked it answers 409 and leaves the list as it was.  unblock-user on a
\* blocked sender goes on to the delete, which removes the record and answers
\* 200; on a sender with no record it answers 404 and leaves the list as it was.
C18_BlockListTransitions ==
    [][\A r \in Slots :
          /\ \A s \in DOMAIN blocked_users' :
                (s \notin DOMAIN blocked_users \/ blocked_users'[s] # blocked_users[s])
                => blocked_users'[s].blocked = TRUE
          /\ AdminChecked(r, "block")
             => LET s == proc'[r].body.sender_id
                IN /\ blocked_users' = blocked_users
                   /\ IF BlockedTrue(s)
                      THEN proc'[r].pc = "done" /\ proc'[r].status = 409
                      ELSE proc'[r].pc = "block_write"
          /\ (proc[r].pc = "block_write" /\ proc'[r] # proc[r])
             => LET s == proc[r].body.sender_id
                IN IF proc'[r].status = 200
                   THEN /\ blocked_users'[s] =
                              [blocked |-> TRUE, blockedAt |-> DateNow,
                               reason |-> proc[r].body.reason,
                               blockedBy |-> Tokens[proc[r].headers.authorization.token].email]
                        /\ OtherBlocksKept(s)
                   ELSE proc'[r].status = 500 /\ blocked_users' = blocked_users
          /\ AdminChecked(r, "unblock")
             => LET s == proc'[r].body.sender_id
                IN /\ blocked_users' = blocked_users
                   /\ IF s \in DOMAIN blocked_users
                      THEN proc'[r].pc = "unblock_delete"
                      ELSE proc'[r].pc = "done" /\ proc'[r].status = 404
          /\ (proc[r].pc = "unblock_delete" /\ proc'[r] # proc[r])
             => LET s == proc[r].body.sender_id
                IN IF proc'[r].status = 200
                   THEN s \notin DOMAIN blocked_users' /\ OtherBlocksKept(s)
                   ELSE proc'[r].status = 500 /\ blocked_users' = blocked_users]_vars

\* a block-user on a sender blocked at an earlier time has been answered 409,
\* and the record is the one of the first block
C18_Witness ==
    \E r \in Slots :
        /\ proc[r].pc = "done" /\ proc[r].op = "block" /\ proc[r].status = 409
        /\ BlockedTrue(proc[r].body.sender_id)
        /\ blocked_users[proc[r].body.sender_id].blockedAt < DateNow
        /\ blocked_users[proc[r].body.sender_id].reason = "spam"

\* the email an admin-management request names
NamedEmail(req) ==
    IF req.op = "create" THEN (IF Has(req.body, "email") THEN req.body.email ELSE "")
    ELSE req.params.email

\* the handler of slot r takes up a request to one of the routes ops
TakesUp(r, ops) == Quiet(r) /\ proc'[r] # proc[r] /\ proc'[r].op \in ops

\* the request carries a token the identity provider accepts, and the grant of
\* the super-admin marker, where authentication asked for it, went through
Authenticated(req) ==
    /\ ValidBearer(req.headers)
    /\ Has(req, "grant") => req.grant = "ok"

\* the credentials: who can sign in, without the privilege markers
Credentials(users) == [e \in DOMAIN users |-> users[e].uid]

\* C19 as stated: every create, update or delete request naming a super-admin
\* email is answered 400 or 403 whoever sends it, and changes neither the admin
\* accounts nor anything of a credential.
C19_SuperAdminEmailFailsValidationOrForbidden ==
    [][\A r \in Slots :
          (TakesUp(r, {"create", "update", "delete"}) /\ NamedEmail(proc'[r]) \in SUPER_ADMINS)
          => /\ proc'[r].pc = "done" /\ proc'[r].status \in {400, 403}
             /\ admins' = admins
             /\ auth_users' = auth_users]_vars

\* C19: no admin account is ever keyed by a super-admin email.  Every create,
\* update or delete request naming a super-admin email is answered at once and
\* without success: 401 when the caller is not authenticated, otherwise 403
\* when the caller is no super admin and 400 when the caller is one; it leaves
\* the admin accounts as they were and creates or deletes no credential (the
\* authentication of a super admin may still grant the caller's own marker).
C19_SuperAdminEmailNeverManaged ==
    [][/\ \A e \in SUPER_ADMINS : ~DocExists(admins', e)
       /\ \A r \in Slots :
             (TakesUp(r, {"create", "update", "delete"})
              /\ NamedEmail(proc'[r]) \in SUPER_ADMINS)
             => /\ proc'[r].pc = "done"
                /\ proc'[r].status =
                      IF ~Authenticated(proc'[r]) THEN 401
                      ELSE IF Tokens[proc'[r].headers.authorization.token].email
                                 \in SUPER_ADMINS
                      THEN 400 ELSE 403
                /\ admins' = admins
                /\ Credentials(auth_users') = Credentials(auth_users)]_vars

\* a super admin's request to delete the super admin's account has been
\* answered 400, after an admin account was created for another email
C19_Witness ==
    \E r \in Slots :
        /\ proc[r].pc = "done" /\ proc[r].op = "delete"
        /\ proc[r].params.email \in SUPER_ADMINS
        /\ Tokens[proc[r].headers.authorization.token].email \in SUPER_ADMINS
        /\ proc[r].status = 400
        /\ DocExists(admins, "new@x.in")
        /\ ~DocExists(admins, proc[r].params.email)

\* C20: a request to list, create, update or delete admin accounts from an
\* authenticated caller whose email is not on the super-admin allow-list is
\* answered 403 at once, and leaves the admin accounts and every credential,
\* markers included, as they were.
C20_NonSuperAdminForbidden ==
    [][\A r \in Slots :
          (/\ TakesUp(r, {"list", "create", "update", "delete"})
           /\ Authenticated(proc'[r])
           /\ Tokens[proc'[r].headers.authorization.token].email \notin SUPER_ADMINS)
          => /\ proc'[r].pc = "done" /\ proc'[r].status = 403
             /\ admins' = admins
             /\ auth_users' = auth_users]_vars

\* the regular admin's request to change the districts of its own account has
\* been answered 403, and the account still has the districts it was given
C20_Witness ==
    \E r \in Slots :
        /\ proc[r].pc = "done" /\ proc[r].op = "update" /\ proc[r].status = 403
        /\ Tokens[proc[r].headers.authorization.token].email = proc[r].params.email
        /\ proc[r].params.email \notin SUPER_ADMINS
        /\ DocExists(admins, proc[r].params.email)
        /\ proc[r].body.assignedDistricts # admins[proc[r].params.email].assignedDistricts
        /\ now > 0

\* the snapshot write of slot r, for a request of one of the types, goes through
StoresRow(r, s, types) ==
    /\ proc[r].pc = "sos_store" /\ proc'[r] # proc[r]
    /\ proc[r].body.sender_id = s
    /\ proc[r].body.sos_type \in types
    /\ proc'[r].write = "ok"

\* C26 as stated: a row is keyed by its sender, comes into existence only
\* through a successful raise of that sender, and is never deleted.
C26_RowOnlyFromRaise ==
    [][/\ \A s \in DOMAIN sos_alerts' : sos_alerts'[s].sender_id = s
       /\ \A s \in DOMAIN sos_alerts' \ DOMAIN sos_alerts :
             \E r \in Slots : StoresRow(r, s, {"sos_alert"})
       /\ DOMAIN sos_alerts \subseteq DOMAIN sos_alerts']_vars

\* C26: the store holds one row per sender, keyed by the sender's id.  A row
\* comes into existence only through a successful snapshot write of a raise or
\* a resolve of that sender: a resolve of a sender with no row creates a row of
\* sender_id, active: false and timestamp.  A sweep never creates a row, and no
\* operation deletes one.
C26_RowFromRaiseOrResolve ==
    [][/\ \A s \in DOMAIN sos_alerts' : sos_alerts'[s].sender_id = s
       /\ \A s \in DOMAIN sos_alerts' \ DOMAIN sos_alerts :
             \E r \in Slots :
                /\ StoresRow(r, s, {"sos_alert", "stop"})
                /\ proc[r].body.sos_type = "stop"
                   => sos_alerts'[s] = [sender_id |-> s, active |-> FALSE,
                                        timestamp |-> DateNow]
       /\ (\E r \in Slots : proc[r].pc \in {"idle", "done", "sweep_commit"}
                            /\ proc'[r] # proc[r])
          => DOMAIN sos_alerts' = DOMAIN sos_alerts
       /\ DOMAIN sos_alerts \subseteq DOMAIN sos_alerts']_vars

\* a resolve of a sender who never raised has been answered 200 and has left a
\* row of that sender with no payload
C26_Witness ==
    \E r \in Slots :
        /\ proc[r].pc = "done" /\ proc[r].op = "sos" /\ proc[r].status = 200
        /\ proc[r].body.sos_type = "stop"
        /\ DocExists(sos_alerts, proc[r].body.sender_id)
        /\ DOMAIN sos_alerts[proc[r].body.sender_id] = {"sender_id", "active", "timestamp"}
        /\ fcm.count = 1

\* the row of sender s is written in this step
RowWritten(s) == s \notin DOMAIN sos_alerts \/ sos_alerts'[s] # sos_alerts[s]

\* C27: every write to a row, by a raise, a resolve or a sweep, sets timestamp
\* (the last-updated time) to the server time of the write, and the timestamp
\* of a row never decreases.
C27_EveryWriteStampsLastUpdated ==
    [][\A s \in DOMAIN sos_alerts' :
          /\ RowWritten(s) => sos_alerts'[s].timestamp = DateNow
          /\ s \in DOMAIN sos_alerts
             => sos_alerts'[s].timestamp >= sos_alerts[s].timestamp]_vars

\* the expiry fields of a row
ExpiryOf(row) == [f \in DOMAIN row \cap {"expiredAt", "expiredBy"} |-> row[f]]

\* C28: expiredAt and expiredBy are written only by the commit of a sweep, on
\* the rows of its batch, as the time of the commit and "scheduled_job", in the
\* write that makes an active row inactive.  A row is created without them, and
\* no write of a raise or a resolve changes them.
C28_ExpiryFieldsOnlyFromSweep ==
    [][\A s \in DOMAIN sos_alerts' :
          /\ s \notin DOMAIN sos_alerts => ExpiryOf(sos_alerts'[s]) = EmptyFn
          /\ (s \in DOMAIN sos_alerts
              /\ ExpiryOf(sos_alerts'[s]) # ExpiryOf(sos_alerts[s]))
             => /\ \E r \in Slots : /\ proc[r].pc = "sweep_commit"
                                    /\ proc'[r].pc = "done"
                                    /\ s \in proc[r].batch
                /\ ExpiryOf(sos_alerts'[s]) =
                      [expiredAt |-> DateNow, expiredBy |-> "scheduled_job"]
                /\ sos_alerts[s].active = TRUE /\ sos_alerts'[s].active = FALSE
          /\ (\E r \in Slots : proc[r].pc = "sos_store" /\ proc'[r] # proc[r])
             => (s \in DOMAIN sos_alerts
                 => ExpiryOf(sos_alerts'[s]) = ExpiryOf(sos_alerts[s]))]_vars

\* a sweep has expired the row of one sender, stamping it, while the row of
\* another sender, who raised later, has no expiry fields
C28_Witness ==
    \E r \in Slots, s, t \in DOMAIN sos_alerts :
        /\ proc[r].pc = "done" /\ proc[r].op = "sweep"
        /\ ExpiryOf(sos_alerts[s]) = [expiredAt |-> DateNow, expiredBy |-> "scheduled_job"]
        /\ sos_alerts[s].timestamp < sos_alerts[s].expiredAt
        /\ sos_alerts[t].active = TRUE
        /\ ExpiryOf(sos_alerts[t]) = EmptyFn

\* the delete-admin request of slot r is answered 200 in this step
DeleteSucceeds(r) ==
    /\ proc[r].pc = "delete_write"
    /\ proc'[r].pc = "done" /\ proc'[r].status = 200

\* C25 as stated: after a delete-admin request that reports success, neither
\* the admin account nor the credential of that email exists.
C25_DeleteRemovesRowAndCredential ==
    [][\A r \in Slots :
          DeleteSucceeds(r)
          => /\ ~DocExists(admins', proc[r].params.email)
             /\ proc[r].params.email \notin DOMAIN auth_users']_vars

\* C25: after a delete-admin request that reports success the admin account of
\* that email does not exist, and its credential does not exist either when
\* the deletion of the credential went through.  A failed deletion of the
\* credential is logged and passed over: the handler goes on to delete the
\* account, reports success, and the credential is left as it was.
C25_DeleteRemovesRowAndCredentialUnlessAuthFails ==
    [][\A r \in Slots :
          /\ (proc[r].pc = "delete_user" /\ proc'[r] # proc[r])
             => /\ proc'[r].pc = "delete_write"
                /\ admins' = admins
                /\ IF proc'[r].remove = "ok"
                   THEN /\ proc[r].params.email \notin DOMAIN auth_users'
                        /\ \A e \in DOMAIN auth_users \ {proc[r].params.email} :
                              e \in DOMAIN auth_users' /\ auth_users'[e] = auth_users[e]
                   ELSE auth_users' = auth_users
          /\ DeleteSucceeds(r)
             => /\ ~DocExists(admins', proc[r].params.email)
                /\ auth_users' = auth_users
                /\ proc'[r].remove = "ok"
                   => proc[r].params.email \notin DOMAIN auth_users']_vars

\* a delete-admin request whose deletion of the credential failed has been
\* answered 200: the account is gone and the credential is still there
C25_Witness ==
    \E r \in Slots :
        /\ proc[r].pc = "done" /\ proc[r].op = "delete" /\ proc[r].status = 200
        /\ proc[r].remove = "fail"
        /\ ~DocExists(admins, proc[r].params.email)
        /\ proc[r].params.email \in DOMAIN auth_users

\* the email of the caller of an authenticated request
CallerOf(req) == Tokens[req.headers.authorization.token].email

\* the senders of the store that have a name or a number to show
SendersWithInfo == {d \in DOMAIN sos_alerts : Has(sos_alerts[d], "userInfo")}

\* C21: a profile or list-users request of an authenticated caller is decided
\* on the admin accounts as they are when the request arrives.  A super admin
\* is let in whether or not an account of that email exists, with the role
\* superadmin and every sender listed.  Any other caller is let in exactly when
\* an account of its email exists with active = TRUE, and is answered 403
\* otherwise.
C21_AuthorizedFromCurrentAccount ==
    [][\A r \in Slots :
          (TakesUp(r, {"profile", "users"}) /\ Authenticated(proc'[r]))
          => LET res == proc'[r]
                 email == CallerOf(res)
                 served == res.status = 200
                           \/ (res.op = "users" /\ res.status = 500 /\ res.read = "fail")
             IN /\ res.pc = "done"
                /\ admins' = admins
                /\ IF email \in SUPER_ADMINS
                   THEN /\ served
                        /\ (res.op = "profile") => res.profile.role = "superadmin"
                        /\ (res.op = "users" /\ res.status = 200)
                           => DOMAIN res.users = SendersWithInfo
                   ELSE res.lookup = "ok"
                        => IF DocExists(admins, email) /\ admins[email].active = TRUE
                           THEN /\ served
                                /\ (res.op = "profile")
                                   => res.profile.assignedDistricts =
                                         admins[email].assignedDistricts
                           ELSE res.status = 403]_vars

\* the regular admin's profile request has been answered 403 after the super
\* admin deactivated the account
C21_Witness ==
    \E r \in Slots :
        /\ proc[r].pc = "done" /\ proc[r].op = "profile" /\ proc[r].status = 403
        /\ CallerOf(proc[r]) = "admin@x.in"
        /\ DocExists(admins, "admin@x.in")
        /\ admins["admin@x.in"].active = FALSE
        /\ admins["admin@x.in"].updatedBy = "super@x.in"

\* C22: every sender that list-users returns to a regular admin has a district
\* among the assignedDistricts of that admin's account; an admin with no
\* assigned districts is shown no sender.
C22_UsersWithinAssignedDistricts ==
    [][\A r \in Slots :
          (/\ TakesUp(r, {"users"}) /\ Authenticated(proc'[r])
           /\ CallerOf(proc'[r]) \notin SUPER_ADMINS
           /\ proc'[r].status = 200)
          => \A u \in DOMAIN proc'[r].users :
                proc'[r].users[u].district
                   \in admins[CallerOf(proc'[r])].assignedDistricts]_vars

\* the routes behind authenticateUser
GuardedRoutes ==
    {"block", "unblock", "users", "profile", "list", "create", "update", "delete"}

\* what a response carries of the stores
ResponseData == {"users", "profile", "emails", "blockedUsers", "alerts", "read"}

\* C23: a request to a route behind authenticateUser whose authorization
\* header is missing, does not start with Bearer, or carries a token the
\* identity provider rejects is answered 401 at once; the response carries
\* nothing of a store, and no store and no credential is changed.
C23_BadCredentialIs401 ==
    [][\A r \in Slots :
          (TakesUp(r, GuardedRoutes) /\ ~ValidBearer(proc'[r].headers))
          => /\ proc'[r].pc = "done" /\ proc'[r].status = 401
             /\ DOMAIN proc'[r] \cap ResponseData = {}
             /\ UNCHANGED <<sos_alerts, blocked_users, admins, auth_users, fcm>>]_vars

\* a delete-admin request with a header of another scheme has been answered
\* 401, and the account it names is still there
C23_Witness ==
    \E r \in Slots :
        /\ proc[r].pc = "done" /\ proc[r].op = "delete" /\ proc[r].status = 401
        /\ Has(proc[r].headers, "authorization")
        /\ proc[r].headers.authorization.scheme = "Basic "
        /\ DocExists(admins, proc[r].params.email)
        /\ proc[r].params.email \in DOMAIN auth_users

\* the routes the README lists under "Admin (Auth Required)"
AuthRequiredRoutes ==
    {"profile", "users", "block", "unblock", "blocked-users", "sos-alerts"}

\* C24: a request to a route listed under "Admin (Auth Required)" that has not
\* passed the verification of its credential is rejected, and is given no data.
C24_ListsNeedCredential ==
    [][\A r \in Slots :
          (TakesUp(r, AuthRequiredRoutes) /\ ~ValidBearer(proc'[r].headers))
          => /\ proc'[r].pc = "done" /\ proc'[r].status \in {401, 403}
             /\ DOMAIN proc'[r] \cap ResponseData = {}]_vars

\* C30: with the snapshot feature off, a raise of a blocked sender is still
\* answered 403, a request that passed the checks still sends its message, and
\* the request that comes to its snapshot is answered 200 without a write; no
\* step changes the store.  The sweep returns at once, having scanned nothing
\* and expired nothing, and the alert listing is answered with no alert and
\* without a read.
C30_SnapshotOffWritesNothing ==
    [][/\ ~FEATURES.ENABLE_SOS_ALERT_SNAPSHOT
       /\ sos_alerts' = sos_alerts
       /\ \A r \in Slots :
             /\ (/\ SosChecked(r)
                 /\ WellFormed(proc'[r].body, "sos_alert")
                    \/ WellFormed(proc'[r].body, "stop")
                 /\ proc'[r].lookup = "ok")
                => IF BlockedTrue(proc'[r].body.sender_id)
                   THEN proc'[r].pc = "done" /\ proc'[r].status = 403 /\ fcm' = fcm
                   ELSE proc'[r].pc = "sos_send"
             /\ (proc[r].pc = "sos_send" /\ proc'[r] # proc[r])
                => IF proc'[r].pc = "sos_store"
                   THEN fcm'.count = fcm.count + 1
                   ELSE proc'[r].status = 500 /\ fcm' = fcm
             /\ (proc[r].pc = "sos_store" /\ proc'[r] # proc[r])
                => proc'[r].pc = "done" /\ proc'[r].status = 200
             /\ (Quiet(r) /\ SweepSteps(r))
                => /\ proc'[r].pc = "done"
                   /\ proc'[r].result = [expired |-> 0, checked |-> 0, enabled |-> FALSE]
                   /\ ~Has(proc'[r], "scan") /\ ~Has(proc'[r], "commit")
             /\ TakesUp(r, {"sos-alerts"})
                => /\ proc'[r].status = 200
                   /\ proc'[r].alerts = EmptyFn
                   /\ ~Has(proc'[r], "read")]_vars

\* with the feature off a resolve of sender A has been answered 200 with the
\* id of its message, and the row of A is the active row it was
C30_Witness ==
    \E r \in Slots :
        /\ ~FEATURES.ENABLE_SOS_ALERT_SNAPSHOT
        /\ proc[r].pc = "done" /\ proc[r].op = "sos" /\ proc[r].status = 200
        /\ proc[r].body.sos_type = "stop"
        /\ proc[r].messageId = fcm.count
        /\ now > 0
        /\ sos_alerts[proc[r].body.sender_id].active = TRUE
        /\ sos_alerts[proc[r].body.sender_id].timestamp = 0

\* the store after the request that slot r served is run on coll by itself at
\* time ts, with the outcomes that request met
RunAlone(coll, r, ts) ==
    IF Has(proc[r], "write")
    THEN storeSOSAlert(coll, FEATURES, proc[r].body.sender_id,
                       proc[r].body.sos_type = "sos_alert", sosStoreArgs(proc[r].body),
                       ts, proc[r].write)
    ELSE coll

\* the stores that running the request of slot p and then the request of slot
\* q, one after the other, can leave
OneAfterTheOther(p, q) ==
    {RunAlone(RunAlone(RaceStart, p, t[1] * TickMs), q, t[2] * TickMs) :
        t \in {u \in (0..now) \X (0..now) : u[1] <= u[2]}}

SuperAdminAsks(r, op) ==
    /\ TakesUp(r, {op})
    /\ Authenticated(proc'[r])
    /\ CallerOf(proc'[r]) \in SUPER_ADMINS
    /\ proc'[r].lookup = "ok"

\* the request of slot r is refused with status in this step, and neither an
\* admin account nor a credential changes
RefusedUnchanged(r, status) ==
    /\ proc'[r].pc = "done" /\ proc'[r].status = status
    /\ admins' = admins
    /\ Credentials(auth_users') = Credentials(auth_users)

\* the write of slot r at pc is answered 200 in this step
WriteSucceeds(r, pc) ==
    proc[r].pc = pc /\ proc'[r].pc = "done" /\ proc'[r].status = 200

\* the fields of the account of email that this step sets or changes
ChangedFields(email) ==
    {f \in DOMAIN admins'[email] :
        ~DocExists(admins, email) \/ ~Has(admins[email], f)
        \/ admins'[email][f] # admins[email][f]}

\* C31 as stated: a create, with a password, for an email that has an account
\* is answered 409 and changes nothing; an update or a delete for an email that has no account
\* is answered 404 and changes nothing; a successful create leaves an account
\* with role admin and active true; a successful update changes only the
\* supplied fields among assignedDistricts and active.
C31_ExistenceChecksAndBareUpdate ==
    [][\A r \in Slots :
          /\ (SuperAdminAsks(r, "create") /\ HasStr(proc'[r].body, "password")
              /\ DocExists(admins, NamedEmail(proc'[r])))
             => RefusedUnchanged(r, 409)
          /\ ((SuperAdminAsks(r, "update") \/ SuperAdminAsks(r, "delete"))
              /\ ~DocExists(admins, NamedEmail(proc'[r])))
             => RefusedUnchanged(r, 404)
          /\ WriteSucceeds(r, "create_write")
             => /\ DocExists(admins', proc[r].body.email)
                /\ admins'[proc[r].body.email].role = "admin"
                /\ admins'[proc[r].body.email].active = TRUE
          /\ WriteSucceeds(r, "update_write")
             => ChangedFields(proc[r].params.email)
                   \subseteq DOMAIN proc[r].body \cap {"assignedDistricts", "active"}]_vars

\* C31: a create, with a password, for an email that has an account is
\* answered 409 and changes nothing; an update or a delete for an email that has no account is answered
\* 404 and changes nothing, unless the email is a super admin's, which is
\* answered 400 before the account is looked up; a successful create leaves an
\* account with role admin and active true; a successful update sets the
\* supplied fields among assignedDistricts and active to the supplied values
\* and, besides them, changes only the audit fields updatedAt and updatedBy,
\* which it sets to the time of the write and the caller.
C31_ExistenceChecksAndAuditedUpdate ==
    [][\A r \in Slots :
          /\ (SuperAdminAsks(r, "create") /\ HasStr(proc'[r].body, "password")
              /\ DocExists(admins, NamedEmail(proc'[r])))
             => RefusedUnchanged(r, 409)
          /\ ((SuperAdminAsks(r, "update") \/ SuperAdminAsks(r, "delete"))
              /\ ~DocExists(admins, NamedEmail(proc'[r])))
             => IF NamedEmail(proc'[r]) \in SUPER_ADMINS
                THEN RefusedUnchanged(r, 400)
                ELSE RefusedUnchanged(r, 404)
          /\ WriteSucceeds(r, "create_write")
             => /\ DocExists(admins', proc[r].body.email)
                /\ admins'[proc[r].body.email].role = "admin"
                /\ admins'[proc[r].body.email].active = TRUE
          /\ WriteSucceeds(r, "update_write")
             => LET email == proc[r].params.email
                    supplied == DOMAIN proc[r].body \cap {"assignedDistricts", "active"}
                IN /\ ChangedFields(email) \subseteq supplied \cup {"updatedAt", "updatedBy"}
                   /\ \A f \in supplied : admins'[email][f] = proc[r].body[f]
                   /\ admins'[email].updatedAt = DateNow
                   /\ admins'[email].updatedBy = CallerOf(proc[r])
                   /\ auth_users' = auth_users]_vars

\* the super admin's request to deactivate the regular admin's account has
\* been answered 200 at a later time than the account was created: the account
\* is inactive, carries the audit fields of the update, and has the role, the
\* districts and the creation fields it had
C31_Witness ==
    \E r \in Slots :
        /\ proc[r].pc = "done" /\ proc[r].op = "update" /\ proc[r].status = 200
        /\ proc[r].body = [active |-> FALSE]
        /\ DocExists(admins, proc[r].params.email)
        /\ admins[proc[r].params.email] =
              [updatedAt |-> DateNow, updatedBy |-> "super@x.in", active |-> FALSE]
              @@ DeployedAdmins[proc[r].params.email]
        /\ now > 0

\* ---- C32
\* the sweep of slot r commits its batch in this step
SweepCommits(r) ==
    /\ proc[r].pc = "sweep_commit" /\ proc'[r].pc = "done"
    /\ proc'[r].commit = "ok"

\* the row is older than the threshold at dateNow
Stale(row, dateNow) ==
    Has(row, "timestamp") /\ row.timestamp < dateNow - ALERT_EXPIRATION_THRESHOLD_MS

\* C32: the commit of a sweep makes inactive only rows whose last update is
\* older than the threshold at the time of the commit: a row that a raise wrote
\* after the sweep had scanned, and before it committed, is still active after
\* the commit.
C32_SweepSparesFreshAlert ==
    [][\A r \in Slots :
          SweepCommits(r)
          => \A s \in DOMAIN sos_alerts :
                (sos_alerts[s].active = TRUE /\ ~Stale(sos_alerts[s], DateNow))
                => sos_alerts'[s].active = TRUE]_vars

\* ---- C33
\* both requests of the race have been answered 200 and both snapshot writes
\* went through
BothServed ==
    /\ proc[1].pc = "done" /\ proc[2].pc = "done"
    /\ proc[1].status = 200 /\ proc[2].status = 200
    /\ proc[1].write = "ok" /\ proc[2].write = "ok"

\* C33 as stated: when a raise and a resolve of one sender ran at the same
\* time, the notification that was sent last belongs to the write that was
\* applied last: the row ends active exactly when the alert notification was
\* sent after the resolved notification.
C33_SendOrderIsWriteOrder ==
    BothServed => sos_alerts["A"].active = (proc[1].messageId > proc[2].messageId)

\* C33: each request sends its notification before it writes its snapshot,
\* and the other request may send and write in between: a snapshot write is
\* made only by a request whose notification has been accepted, and a write
\* that goes through leaves the row active for a raise and inactive for a
\* resolve, whatever was sent or written before.  The row ends in the state
\* of the write applied last, which need not be the request that sent last.
C33_EachSendsThenWrites ==
    [][\A r \in Slots :
          (proc[r].pc = "sos_store" /\ proc'[r] # proc[r])
          => /\ Has(proc[r], "messageId")
             /\ fcm' = fcm
             /\ proc'[r].write = "ok"
                => sos_alerts'[proc[r].body.sender_id].active
                      = (proc[r].body.sos_type = "sos_alert")]_vars

\* both requests were answered 200, the resolved notification was sent after
\* the alert notification, and the row ends active: the resolve was sent and
\* stored while the raise was between its send and its write
C33_Witness ==
    /\ BothServed
    /\ proc[1].body.sos_type = "sos_alert" /\ proc[2].body.sos_type = "stop"
    /\ proc[1].messageId = 1 /\ proc[2].messageId = 2
    /\ sos_alerts["A"].active = TRUE
    /\ sos_alerts["A"].location = L2

\* ---- C34
\* the rows of coll that are not active
inactiveAlerts(coll) == DOMAIN coll \ activeAlerts(coll)

\* the rows of coll that are active and older than the threshold at dateNow
StaleActive(coll, dateNow) ==
    {s \in DOMAIN coll : coll[s].active = TRUE /\ Stale(coll[s], dateNow)}

\* the store a single sweep that scans SweepsAlerts at tick t and commits leaves
SingleSweep(t) ==
    [s \in DOMAIN SweepsAlerts |->
        IF s \in StaleActive(SweepsAlerts, t * TickMs)
        THEN Merge([active |-> FALSE, expiredAt |-> t * TickMs,
                    expiredBy |-> "scheduled_job"], SweepsAlerts[s])
        ELSE SweepsAlerts[s]]

\* C34: however the scans and the commits of overlapping sweeps interleave,
\* the rows that are inactive are those that a single sweep of the store at
\* some time of the run leaves inactive (or those of the start, when no commit
\* went through); no step makes an inactive row active; and a commit changes
\* only rows of its batch, which were active and older than the threshold in
\* the store the sweeps started on, and of them only active, expiredAt and
\* expiredBy.
C34_OverlappingSweepsHarmless ==
    [][/\ \/ inactiveAlerts(sos_alerts') = inactiveAlerts(SweepsAlerts)
          \/ \E t \in 0..now :
                inactiveAlerts(sos_alerts') = inactiveAlerts(SingleSweep(t))
       /\ DOMAIN sos_alerts' = DOMAIN sos_alerts
       /\ \A s \in DOMAIN sos_alerts :
             /\ s \in inactiveAlerts(sos_alerts) => s \in inactiveAlerts(sos_alerts')
             /\ sos_alerts'[s] # sos_alerts[s]
                => /\ \E r \in Slots : SweepCommits(r) /\ s \in proc[r].batch
                   /\ s \in StaleActive(SweepsAlerts, DateNow)
                   /\ sos_alerts'[s] = Merge(expireUpdate(DateNow), SweepsAlerts[s])]_vars

\* two sweeps have committed after the second scanned, at a later time, while
\* the first was at its commit: the second had the row of the first in its
\* batch, stamped it again, and the inactive rows are those of the second alone
C34_Witness ==
    /\ proc[1].pc = "done" /\ proc[2].pc = "done"
    /\ proc[1].harness = "completed" /\ proc[2].harness = "completed"
    /\ proc[1].batch = {"A"} /\ proc[2].batch = {"A", "B"}
    /\ inactiveAlerts(sos_alerts) = {"A", "B", "C"}
    /\ sos_alerts["A"].expiredAt = sos_alerts["B"].expiredAt
    /\ sos_alerts["A"].expiredAt = DateNow

\* ---- C35
\* a raise of sender s is at its snapshot write
RaiseAtWrite(s) ==
    \E r \in Slots :
        /\ proc[r].pc = "sos_store"
        /\ proc[r].body.sender_id = s /\ proc[r].body.sos_type = "sos_alert"

\* C35: with time advancing, handlers resumed and the scheduled job firing
\* again and again without its query and its commit failing for ever, a row
\* that is active becomes inactive, by a resolve or by the job, unless a
\* further raise of its sender is written first.
C35_ActiveEventuallyInactive ==
    \A s \in Senders :
        ActiveRow(sos_alerts, s) ~> (~ActiveRow(sos_alerts, s) \/ RaiseAtWrite(s))

\* the row that a raise of this run wrote has been made inactive by the
\* scheduled job a threshold later, with no resolve stored after the raise
C35_Witness ==
    /\ proc[2].pc = "done" /\ proc[2].op = "sweep" /\ "A" \in proc[2].batch
    /\ sos_alerts["A"].active = FALSE
    /\ sos_alerts["A"].location = L2
    /\ sos_alerts["A"].expiredBy = "scheduled_job"
    /\ sos_alerts["A"].expiredAt > sos_alerts["A"].timestamp + ALERT_EXPIRATION_THRESHOLD_MS

\* ---- C36
\* the record that the block-user request of slot r writes at some time
WritesRecord(r, row) ==
    /\ row.reason = proc[r].body.reason
    /\ row.blockedBy = CallerOf(proc[r])

\* C36: once two block-user requests about the same sender, who had no
\* record, have both been answered without a failure of the store, one of them
\* was answered 200 and the other 409, and the record of the sender is the one
\* that the request answered 200 wrote.
C36_OneBlockWins ==
    (/\ proc[1].pc = "done" /\ proc[2].pc = "done"
     /\ proc[1].status # 500 /\ proc[2].status # 500)
    => \E w, l \in {1, 2} :
          /\ w # l
          /\ proc[w].status = 200 /\ proc[l].status = 409
          /\ BlockedTrue(proc[w].body.sender_id)
          /\ WritesRecord(w, blocked_users[proc[w].body.sender_id])

\* ---- C37
\* the create-admin request of slot r is answered in this step, after its
\* createUser call made the credential of the email it names
CreateEndsWithCredential(r) ==
    /\ proc[r].pc = "create_write" /\ proc'[r].pc = "done"
    /\ proc[r].create = "ok"
    /\ proc[r].body.email \in DOMAIN auth_users'

\* C37: when a create-admin request has been answered, whatever the outcome,
\* the credential that its createUser call made exists only together with the
\* admin account of that email: a create that fails leaves no credential
\* without an account.
C37_CredentialOnlyWithAccount ==
    [][\A r \in Slots :
          CreateEndsWithCredential(r) => DocExists(admins', proc[r].body.email)]_vars

\* ---- C38
\* the caller's email is neither a super admin's nor that of an active admin
\* account
NoAdministrator(email) == email \notin SUPER_ADMINS /\ ~AdminActive(admins, email)

\* C38: a block-user or unblock-user request from an authenticated caller who
\* is neither a super admin nor the holder of an active admin account is
\* answered 403 and leaves the block list as it was, and the block list is
\* changed only by the write of a request whose caller is a super admin or
\* holds an active admin account.
C38_BlockListOnlyForAdministrators ==
    [][\A r \in Slots :
          /\ (/\ TakesUp(r, {"block", "unblock"})
              /\ Authenticated(proc'[r])
              /\ NoAdministrator(CallerOf(proc'[r])))
             => /\ proc'[r].pc = "done" /\ proc'[r].status = 403
                /\ blocked_users' = blocked_users
          /\ (proc[r].pc \in {"block_write", "unblock_delete"} /\ proc'[r] # proc[r]
              /\ blocked_users' # blocked_users)
             => ~NoAdministrator(CallerOf(proc[r]))]_vars

\* ---- C39
\* C39: the snapshot write of a raise or a resolve leaves expiredAt and
\* expiredBy of every row as they are, and no step removes them from a row
\* that has them: once a sweep has expired a row, the row carries expiredBy
\* "scheduled_job" and an expiredAt through every later raise and resolve,
\* also while it is active again.
C39_ExpiryFieldsPersist ==
    [][\A s \in DOMAIN sos_alerts :
          /\ s \in DOMAIN sos_alerts'
          /\ (\E r \in Slots : proc[r].pc = "sos_store" /\ proc'[r] # proc[r])
             => ExpiryOf(sos_alerts'[s]) = ExpiryOf(sos_alerts[s])
          /\ Has(sos_alerts[s], "expiredBy")
             => /\ DOMAIN ExpiryOf(sos_alerts'[s]) = {"expiredAt", "expiredBy"}
                /\ sos_alerts'[s].expiredBy = "scheduled_job"
                /\ sos_alerts'[s].expiredAt >= sos_alerts[s].expiredAt]_vars

\* a raise of a sender whose row a sweep had expired has been stored and
\* answered 200: the row is active and still carries the expiry fields of the
\* sweep
C39_Witness ==
    \E r \in Slots :
        /\ proc[r].pc = "done" /\ proc[r].op = "sos" /\ proc[r].status = 200
        /\ proc[r].body.sos_type = "sos_alert" /\ proc[r].write = "ok"
        /\ DocExists(sos_alerts, proc[r].body.sender_id)
        /\ sos_alerts[proc[r].body.sender_id].active = TRUE
        /\ Has(sos_alerts[proc[r].body.sender_id], "expiredBy")
        /\ sos_alerts[proc[r].body.sender_id].expiredBy = "scheduled_job"
        /\ sos_alerts[proc[r].body.sender_id].timestamp
              >= sos_alerts[proc[r].body.sender_id].expiredAt

====
